---------------------------- MODULE Spec2Model ----------------------------
(***************************************************************************)
(* Model of the med-risk-predictor core: the risk classifier               *)
(* (src/src/models/risk_classifier.py), the data cleaner                   *)
(* (src/src/preprocessing/cleaning.py, src/src/utils/helpers.py), the      *)
(* feature engineer (src/src/features/engineering.py), the recursive       *)
(* forecaster (src/src/models/predict.py) and the trainable predictor      *)
(* with its persistence (src/src/models/train.py).                         *)
(*                                                                         *)
(* Quantities (stock, consumption, forecast) are integers where the code   *)
(* holds whole numbers; the comparisons the code makes on float quotients  *)
(* are made on the exact quotient by cross-multiplication, which agrees    *)
(* with IEEE double division for the magnitudes modelled (a quotient of    *)
(* two integers below 2^50 differs from 1.0 or 1.2 by far more than an     *)
(* ulp unless it equals it).  Risk level 'Médio' is written "Medio".       *)
(***************************************************************************)
EXTENDS Integers, Sequences, FiniteSets, TLC

VARIABLES
    riskInput,      \* the table handed to RiskClassifier.classify_batch
    riskTable,      \* the table classify_batch returned
    riskPc,         \* "input" before classify_batch has run, "classified" after
    cleanInput,     \* the table handed to DataCleaner.clean
    cleaned,        \* what clean did with it: the table returned, or the error
    recleaned,      \* what clean did with the table it returned before
    monthly,        \* the table aggregate_monthly returned
    cleanPc,        \* "input", then "cleaned" or "failed", then "recleaned" or "aggregated"
    featInput,      \* the monthly series handed to FeatureEngineer.create_features
    featTable,      \* the feature table create_features returned for it
    featPrefix,     \* the feature table create_features returned for a prefix of it
    featPc,         \* "input", then "created", then "prefixed"
    fcTable,        \* the feature table handed to predict_all_medications
    fcRegressor,    \* the fitted regression model inside the predictor
    fcHorizon,      \* n_months
    fcCall,         \* the medication predict_future was called for, if it was called alone
    fcResult,       \* what the call did: the table returned, or the error raised
    fcPc,           \* "input", then "future" or "all" after the call made
    trainTable,     \* the training table the pipeline concatenated
    trainFraction,  \* the test_size handed to train
    trainSplit,     \* the rows train fitted on and the rows it tested on
    trainPc,        \* "input", then "trained"
    predictor,      \* the MedicationPredictor objects: model, feature_names, metrics
    files,          \* the file system: what is stored under each path
    calls,          \* the calls made on the predictors, each with how it ended
    repData,        \* risk_data: one row per medication, not yet classified
    repClassified,  \* the table classify_batch returned for it
    repTopN,        \* top_n
    repResult,      \* what the reporting call returned
    repPc,          \* "input", "classified", then the reporting call made
    lpDf,           \* the feature table the caller handed to the forecaster
    lpModel,        \* the MedicationPredictor the forecaster holds by reference
    lpHorizon,      \* n_months
    lpMode,         \* "future" for a call of predict_future, "all" for predict_all_medications
    lpQueue,        \* the medications still to forecast, the current one first
    lpAll,          \* all_predictions, the forecast rows collected so far
    lpMedData,      \* med_data, the history the loop extends
    lpLastDate,     \* last_date
    lpFeatures,     \* future_features of the current step
    lpPredValue,    \* pred_value of the current step
    lpPredictions,  \* predictions, the forecast rows emitted so far
    lpStep,         \* i
    lpPc,           \* the position in predict_future
    mgPredictions,  \* the forecast table
    mgStock,        \* the monthly table the stock is read from
    mgRisk,         \* the risk table built from the two
    mgPc            \* "input", then "pipeline" or "function"

riskVars == <<riskInput, riskTable, riskPc>>

cleanVars == <<cleanInput, cleaned, recleaned, monthly, cleanPc>>

featVars == <<featInput, featTable, featPrefix, featPc>>

forecastVars ==
    <<fcTable, fcRegressor, fcHorizon, fcCall, fcResult, fcPc>>

trainVars == <<trainTable, trainFraction, trainSplit, trainPc>>

predictorVars == <<predictor, files, calls>>

reportVars == <<repData, repClassified, repTopN, repResult, repPc>>

loopVars ==
    <<lpDf, lpModel, lpHorizon, lpMode, lpQueue, lpAll, lpMedData, lpLastDate,
      lpFeatures, lpPredValue, lpPredictions, lpStep, lpPc>>

mergeVars == <<mgPredictions, mgStock, mgRisk, mgPc>>

vars ==
    <<riskVars, cleanVars, featVars, forecastVars, trainVars, predictorVars,
      reportVars, loopVars, mergeVars>>

(* the components a specification leaves untouched, as they are built *)
RiskIdle == riskInput = <<>> /\ riskTable = <<>> /\ riskPc = "input"

FeaturesIdle ==
    featInput = <<>> /\ featTable = <<>> /\ featPrefix = <<>> /\ featPc = "input"

ForecastIdle ==
    /\ fcTable = <<>>
    /\ fcRegressor = "none"
    /\ fcHorizon = 0
    /\ fcCall = "none"
    /\ fcResult = <<>>
    /\ fcPc = "input"

TrainIdle ==
    trainTable = <<>> /\ trainFraction = <<>> /\ trainSplit = <<>> /\ trainPc = "input"

PredictorIdle == predictor = <<>> /\ files = <<>> /\ calls = <<>>

ReportIdle ==
    /\ repData = <<>>
    /\ repClassified = <<>>
    /\ repTopN = 0
    /\ repResult = <<>>
    /\ repPc = "input"

LoopIdle ==
    /\ lpDf = <<>>
    /\ lpModel = <<>>
    /\ lpHorizon = 0
    /\ lpMode = "none"
    /\ lpQueue = <<>>
    /\ lpAll = <<>>
    /\ lpMedData = <<>>
    /\ lpLastDate = 0
    /\ lpFeatures = <<>>
    /\ lpPredValue = <<>>
    /\ lpPredictions = <<>>
    /\ lpStep = 0
    /\ lpPc = "input"

MergeIdle == mgPredictions = <<>> /\ mgStock = <<>> /\ mgRisk = <<>> /\ mgPc = "input"

-----------------------------------------------------------------------------
(* Bounds of the model *)

MaxStock == 7
MaxForecast == 6
MaxRiskRows == 2

(* Stock and forecast values: a small range, plus the magnitudes of the    *)
(* documented scenarios (stock 1100 or 1200 against a forecast of 1000)    *)
(* and values that round to the thresholds from below (996, 1196).         *)
StockValues == (0..MaxStock) \cup {996, 1000, 1100, 1196, 1200}
ForecastValues == (0..MaxForecast) \cup {1000}

Max(a, b) == IF a >= b THEN a ELSE b

Range(seq) == {seq[i] : i \in 1..Len(seq)}

RECURSIVE GCD(_, _)
GCD(a, b) == IF b = 0 THEN a ELSE GCD(b, a % b)

RECURSIVE IsPowerOfTwo(_)
IsPowerOfTwo(n) == n = 1 \/ (n > 1 /\ n % 2 = 0 /\ IsPowerOfTwo(n \div 2))

(* The integers a float quotient num / den, den > 0, can round to.  Away   *)
(* from a tie it is the nearest integer.  A quotient exactly halfway that  *)
(* the doubles hold exactly (exact) is rounded half to even, by Python's   *)
(* round and by numpy's alike; one they do not hold exactly is stored      *)
(* slightly off the tie, on a side the model does not compute, so both     *)
(* neighbours are outcomes.                                                *)
RoundOutcomes(num, den, exact) ==
    LET lo == num \div den
        rem == num % den
    IN  IF 2 * rem < den THEN {lo}
        ELSE IF 2 * rem > den THEN {lo + 1}
        ELSE IF exact THEN {IF lo % 2 = 0 THEN lo ELSE lo + 1}
        ELSE {lo, lo + 1}

-----------------------------------------------------------------------------
(* Text.  A Python str is a sequence of one-character strings.             *)

DigitChars == <<"0", "1", "2", "3", "4", "5", "6", "7", "8", "9">>

IsDigit(c) == \E i \in 1..10 : DigitChars[i] = c

DigitVal(c) == (CHOOSE i \in 1..10 : DigitChars[i] = c) - 1

(* the code point of a character: the order str comparison sorts by *)
Ord(c) ==
    CASE c = " " -> 32
      [] c = "+" -> 43
      [] c = "," -> 44
      [] c = "-" -> 45
      [] c = "." -> 46
      [] c = "/" -> 47
      [] IsDigit(c) -> 48 + DigitVal(c)
      [] c = "A" -> 65
      [] c = "B" -> 66
      [] c = "a" -> 97
      [] c = "b" -> 98
      [] c = "x" -> 120

(* str.upper on one character *)
UpperChar(c) ==
    CASE c = "a" -> "A"
      [] c = "b" -> "B"
      [] c = "x" -> "X"
      [] OTHER -> c

(* str.upper *)
Upper(s) == [i \in 1..Len(s) |-> UpperChar(s[i])]

IsSpace(c) == c = " "

(* str.strip: leading and trailing whitespace removed *)
Strip(s) ==
    LET kept == {i \in 1..Len(s) : ~IsSpace(s[i])}
    IN  IF kept = {} THEN <<>>
        ELSE LET first == CHOOSE i \in kept : \A j \in kept : i <= j
                 last == CHOOSE i \in kept : \A j \in kept : j <= i
             IN  SubSeq(s, first, last)

(* str.replace(',', '.') *)
ReplaceComma(s) == [i \in 1..Len(s) |-> IF s[i] = "," THEN "." ELSE s[i]]

(* s < t in the order of str: by code point, a proper prefix first *)
RECURSIVE StrLess(_, _)
StrLess(s, t) ==
    IF t = <<>> THEN FALSE
    ELSE IF s = <<>> THEN TRUE
    ELSE IF Ord(s[1]) # Ord(t[1]) THEN Ord(s[1]) < Ord(t[1])
    ELSE StrLess(Tail(s), Tail(t))

(* the decimal digits of a natural number, no padding *)
RECURSIVE DigitsOf(_)
DigitsOf(n) ==
    IF n < 10 THEN <<DigitChars[n + 1]>>
    ELSE Append(DigitsOf(n \div 10), DigitChars[(n % 10) + 1])

(* the value of a non-empty run of digits *)
RECURSIVE DigitsValue(_)
DigitsValue(ds) ==
    IF ds = <<>> THEN 0
    ELSE 10 * DigitsValue(SubSeq(ds, 1, Len(ds) - 1)) + DigitVal(ds[Len(ds)])

AllDigits(s) == \A i \in 1..Len(s) : IsDigit(s[i])

-----------------------------------------------------------------------------
(* helpers.format_date: datetime.strptime over the accepted formats, then  *)
(* strftime('%Y-%m').  A format is a sequence of directives "Y", "m", "d"  *)
(* and literal characters.                                                 *)

DateFormats ==
    << <<"Y", "-", "m">>,
       <<"Y", "/", "m">>,
       <<"Y", "m">>,
       <<"d", "/", "m", "/", "Y">>,
       <<"Y", "-", "m", "-", "d">> >>

CharAt(s, pos) == IF pos >= 1 /\ pos <= Len(s) THEN s[pos] ELSE "none"

(* The lengths, in the order the regular expression of strptime tries      *)
(* them, of the text a directive can take at pos:                          *)
(*   %Y  \d\d\d\d                                                          *)
(*   %m  1[0-2] | 0[1-9] | [1-9]                                           *)
(*   %d  3[0-1] | [1-2]\d | 0[1-9] | [1-9] | ' '[1-9]                      *)
DirectiveLengths(dir, s, pos) ==
    LET c1 == CharAt(s, pos)
        c2 == CharAt(s, pos + 1)
        nonzero(c) == IsDigit(c) /\ c # "0"
    IN  IF dir = "Y"
        THEN IF \A k \in 0..3 : IsDigit(CharAt(s, pos + k)) THEN <<4>> ELSE <<>>
        ELSE IF dir = "m"
        THEN (IF c1 = "1" /\ c2 \in {"0", "1", "2"} THEN <<2>> ELSE <<>>)
             \o (IF c1 = "0" /\ nonzero(c2) THEN <<2>> ELSE <<>>)
             \o (IF nonzero(c1) THEN <<1>> ELSE <<>>)
        ELSE IF dir = "d"
        THEN (IF c1 = "3" /\ c2 \in {"0", "1"} THEN <<2>> ELSE <<>>)
             \o (IF c1 \in {"1", "2"} /\ IsDigit(c2) THEN <<2>> ELSE <<>>)
             \o (IF c1 = "0" /\ nonzero(c2) THEN <<2>> ELSE <<>>)
             \o (IF nonzero(c1) THEN <<1>> ELSE <<>>)
             \o (IF c1 = " " /\ nonzero(c2) THEN <<2>> ELSE <<>>)
        ELSE IF c1 = dir THEN <<1>> ELSE <<>>

NoMatch == [ok |-> FALSE, end |-> 0, Y |-> 0, m |-> 0, d |-> 0]

FieldValue(s, pos, len) ==
    DigitsValue(SelectSeq(SubSeq(s, pos, pos + len - 1), IsDigit))

(* the first match of directives k.. of fmt at pos, with backtracking *)
RECURSIVE MatchFrom(_, _, _, _, _)
RECURSIVE TryLengths(_, _, _, _, _, _)
MatchFrom(fmt, k, s, pos, acc) ==
    IF k > Len(fmt) THEN [acc EXCEPT !.ok = TRUE, !.end = pos - 1]
    ELSE TryLengths(fmt, k, s, pos, acc, DirectiveLengths(fmt[k], s, pos))

TryLengths(fmt, k, s, pos, acc, lens) ==
    IF lens = <<>> THEN NoMatch
    ELSE LET len == Head(lens)
             dir == fmt[k]
             acc2 == IF dir \in {"Y", "m", "d"}
                     THEN [acc EXCEPT ![dir] = FieldValue(s, pos, len)]
                     ELSE acc
             rest == MatchFrom(fmt, k + 1, s, pos + len, acc2)
         IN  IF rest.ok THEN rest
             ELSE TryLengths(fmt, k, s, pos, acc, Tail(lens))

IsLeapYear(y) == (y % 4 = 0 /\ y % 100 # 0) \/ y % 400 = 0

DaysInMonth(y, m) ==
    IF m = 2 THEN (IF IsLeapYear(y) THEN 29 ELSE 28)
    ELSE IF m \in {4, 6, 9, 11} THEN 30 ELSE 31

(* datetime.strptime(s, fmt): the match must take the whole text and name  *)
(* a date that exists (the day defaults to 1); otherwise ValueError.       *)
Strptime(s, fmt) ==
    LET found == MatchFrom(fmt, 1, s, 1, [NoMatch EXCEPT !.d = 1])
    IN  IF /\ found.ok
           /\ found.end = Len(s)
           /\ found.Y >= 1
           /\ found.d <= DaysInMonth(found.Y, found.m)
        THEN found
        ELSE NoMatch

(* dt.strftime('%Y-%m') *)
StrftimeYearMonth(dt) ==
    DigitsOf(dt.Y) \o <<"-">> \o (IF dt.m < 10 THEN <<"0">> ELSE <<>>) \o DigitsOf(dt.m)

(* format_date on a str: the first format that parses decides; a text no   *)
(* format parses is returned as it is.                                     *)
FormatDateText(s) ==
    LET parsing == {i \in 1..Len(DateFormats) : Strptime(s, DateFormats[i]).ok}
    IN  IF parsing = {} THEN s
        ELSE LET first == CHOOSE i \in parsing : \A j \in parsing : i <= j
             IN  StrftimeYearMonth(Strptime(s, DateFormats[first]))

(* re.match(r'^\d{4}-\d{2}$', s) *)
MatchesYearMonth(s) ==
    /\ Len(s) = 7
    /\ AllDigits(SubSeq(s, 1, 4))
    /\ s[5] = "-"
    /\ AllDigits(SubSeq(s, 6, 7))

-----------------------------------------------------------------------------
(* Cells and tables.  A cell of a DataFrame column is a str, a number or   *)
(* a missing value (NaN).  Numbers are held in tenths (35 is 3.5), so that *)
(* a decimal such as "3,5" has a value; the texts of the model carry at    *)
(* most one fractional digit.  A table is its set of columns and its rows  *)
(* in order, each row a function from the columns to cells.                *)

Str(s) == [t |-> "str", s |-> s, v |-> 0]

Num(v) == [t |-> "num", s |-> <<>>, v |-> v]

NaN == [t |-> "nan", s |-> <<>>, v |-> 0]

IsNaN(cell) == cell.t = "nan"

Table(cols, rows) == [cols |-> cols, rows |-> rows]

(* pd.DataFrame() *)
EmptyFrame == Table({}, <<>>)

(* DataFrame.empty: some axis has length 0 *)
Empty(df) == df.rows = <<>> \/ df.cols = {}

(* the rows of a table at the positions in keep, in order *)
RECURSIVE RowsAt(_, _, _)
RowsAt(rows, keep, i) ==
    IF i > Len(rows) THEN <<>>
    ELSE (IF i \in keep THEN <<rows[i]>> ELSE <<>>) \o RowsAt(rows, keep, i + 1)

Filter(df, keep) == Table(df.cols, RowsAt(df.rows, keep, 1))

MapRows(df, F(_)) == Table(df.cols, [i \in 1..Len(df.rows) |-> F(df.rows[i])])

(* str(x) of a number: sign, integer digits, and the fractional digit of a *)
(* number that is not whole (a whole float prints a ".0" that parses to    *)
(* the same value)                                                         *)
FormatNumber(v) ==
    LET a == IF v < 0 THEN 0 - v ELSE v
    IN  (IF v < 0 THEN <<"-">> ELSE <<>>)
        \o DigitsOf(a \div 10)
        \o (IF a % 10 # 0 THEN <<".">> \o DigitsOf(a % 10) ELSE <<>>)

(* Series.astype(str) on one cell *)
AsTypeStr(cell) ==
    IF cell.t = "str" THEN cell.s
    ELSE IF cell.t = "num" THEN FormatNumber(cell.v)
    ELSE <<"n", "a", "n">>

NotANumber == [ok |-> FALSE, v |-> 0]

(* pd.to_numeric(errors='coerce') on one text: an optional sign, digits,   *)
(* and at most one "." followed by at most one digit; anything else is not *)
(* a number                                                                *)
ParseNumber(s) ==
    LET signed == s # <<>> /\ s[1] \in {"+", "-"}
        body == IF signed THEN Tail(s) ELSE s
        dots == {i \in 1..Len(body) : body[i] = "."}
        dot == IF dots = {} THEN Len(body) + 1 ELSE CHOOSE i \in dots : TRUE
        whole == SubSeq(body, 1, dot - 1)
        frac == SubSeq(body, dot + 1, Len(body))
        magnitude == 10 * DigitsValue(whole) + DigitsValue(frac)
    IN  IF /\ Cardinality(dots) <= 1
           /\ AllDigits(whole) /\ AllDigits(frac)
           /\ Len(whole) + Len(frac) >= 1
           /\ Len(frac) <= 1
        THEN [ok |-> TRUE,
              v |-> IF signed /\ s[1] = "-" THEN 0 - magnitude ELSE magnitude]
        ELSE NotANumber

(* a slip: the coerced values left missing instead of filled with 0, so    *)
(* that the later clip leaves them missing                                 *)
clean_numeric_column_nofill(cell) ==
    LET parsed == ParseNumber(Strip(ReplaceComma(AsTypeStr(cell))))
    IN  IF parsed.ok THEN Num(parsed.v) ELSE NaN

(* helpers.clean_numeric_column, on one cell of the column *)
clean_numeric_column(cell) ==
    LET parsed == ParseNumber(Strip(ReplaceComma(AsTypeStr(cell))))
    IN  IF parsed.ok THEN Num(parsed.v) ELSE Num(0)

(* Series.clip(lower=0) on one cell *)
ClipLower0(cell) == IF cell.t = "num" /\ cell.v < 0 THEN Num(0) ELSE cell

(* Series.fillna(0) on one cell *)
FillNa0(cell) == IF IsNaN(cell) THEN Num(0) ELSE cell

(* helpers.format_date on one cell *)
format_date(cell) == IF cell.t = "str" THEN Str(FormatDateText(cell.s)) ELSE cell

-----------------------------------------------------------------------------
(* DataCleaner *)

required_columns == {"medicamento", "data", "consumo", "estoque_atual"}

(* helpers.validate_dataframe *)
validate_dataframe(df, required) == ~Empty(df) /\ required \subseteq df.cols

(* DataCleaner._validate_structure: TRUE when it returns, FALSE when it    *)
(* raises ValueError                                                       *)
_validate_structure(df) == validate_dataframe(df, required_columns)

SameKey(r1, r2) == r1.medicamento = r2.medicamento /\ r1.data = r2.data

(* a slip: keep='last' *)
_remove_duplicates_keep_last(df) ==
    Filter(df, {i \in 1..Len(df.rows) :
                    \A j \in (i + 1)..Len(df.rows) : ~SameKey(df.rows[j], df.rows[i])})

(* drop_duplicates(subset=['medicamento', 'data'], keep='first') *)
_remove_duplicates(df) ==
    Filter(df, {i \in 1..Len(df.rows) :
                    \A j \in 1..(i - 1) : ~SameKey(df.rows[j], df.rows[i])})

_handle_missing_values(df) ==
    LET present == Filter(df, {i \in 1..Len(df.rows) :
                        ~IsNaN(df.rows[i].medicamento) /\ ~IsNaN(df.rows[i].data)})
        fill(row) == [row EXCEPT !.consumo = FillNa0(@), !.estoque_atual = FillNa0(@)]
    IN  MapRows(present, fill)

_clean_columns(df) ==
    LET cleanRow(row) ==
            [row EXCEPT
                !.medicamento = Str(Upper(Strip(AsTypeStr(@)))),
                !.consumo = ClipLower0(clean_numeric_column(@)),
                !.estoque_atual = ClipLower0(clean_numeric_column(@))]
    IN  MapRows(df, cleanRow)

_normalize_dates(df) ==
    LET formatted == MapRows(df, LAMBDA row : [row EXCEPT !.data = format_date(@)])
    IN  Filter(formatted, {i \in 1..Len(formatted.rows) :
                    /\ formatted.rows[i].data.t = "str"
                    /\ MatchesYearMonth(formatted.rows[i].data.s)})

RECURSIVE Sum(_)
Sum(seq) == IF seq = <<>> THEN 0 ELSE Head(seq) + Sum(Tail(seq))

(* the numbers of one column, in row order *)
ColumnValues(rows, col) == [i \in 1..Len(rows) |-> rows[i][col].v]

n_std == 3

(* a slip: the removal repeated on the rows that are left *)
RemoveOutliersRepeated(df, col) ==
    LET pass(t) ==
            LET n == Len(t.rows)
                xs == ColumnValues(t.rows, col)
                S == Sum(xs)
                Q == Sum([i \in 1..n |-> xs[i] * xs[i]])
                spread == n * Q - S * S
            IN  IF n >= 2 /\ spread > 0
                THEN Filter(t, {i \in 1..n :
                        \/ n * xs[i] <= S
                        \/ (n * xs[i] - S) * (n * xs[i] - S) * (n - 1)
                                <= n_std * n_std * n * spread})
                ELSE t
    IN  pass(pass(df))

(* df[df[col] <= mean + n_std * std] when std > 0, for one column.  With n *)
(* rows of sum S and sum of squares Q, the sample variance is              *)
(* (n*Q - S*S) / (n*(n-1)), and x <= mean + n_std * std exactly when       *)
(* n*x <= S or (n*x - S)^2 * (n-1) <= n_std^2 * n * (n*Q - S*S).           *)
RemoveOutliersOf(df, col) ==
    LET n == Len(df.rows)
        xs == ColumnValues(df.rows, col)
        S == Sum(xs)
        Q == Sum([i \in 1..n |-> xs[i] * xs[i]])
        spread == n * Q - S * S
        within(x) ==
            \/ n * x <= S
            \/ (n * x - S) * (n * x - S) * (n - 1) <= n_std * n_std * n * spread
    IN  IF n >= 2 /\ spread > 0
        THEN Filter(df, {i \in 1..n : within(xs[i])})
        ELSE df

_remove_outliers(df) ==
    RemoveOutliersOf(RemoveOutliersOf(df, "consumo"), "estoque_atual")

(* rows ordered by (medicamento, data) *)
KeyLess(r1, r2) ==
    \/ StrLess(r1.medicamento.s, r2.medicamento.s)
    \/ /\ r1.medicamento.s = r2.medicamento.s
       /\ StrLess(r1.data.s, r2.data.s)

(* sort_values(['medicamento', 'data']): a stable sort *)
RECURSIVE SortRows(_)
SortRows(rows) ==
    IF rows = <<>> THEN <<>>
    ELSE LET sorted == SortRows(SubSeq(rows, 1, Len(rows) - 1))
             last == rows[Len(rows)]
             before == Cardinality({i \in 1..Len(sorted) : ~KeyLess(last, sorted[i])})
         IN  SubSeq(sorted, 1, before) \o <<last>> \o SubSeq(sorted, before + 1, Len(sorted))

_sort_data(df) == Table(df.cols, SortRows(df.rows))

Returned(df) == [status |-> "ok", df |-> df]

Raised == [status |-> "error", df |-> EmptyFrame]

(* the steps of clean that precede the removal of outliers *)
BeforeOutliers(df) ==
    _normalize_dates(_clean_columns(_handle_missing_values(_remove_duplicates(df))))

(* a slip: an invalid table answered with an empty table, no error raised *)
clean_without_raise(df) ==
    IF Empty(df) \/ ~_validate_structure(df) THEN Returned(EmptyFrame)
    ELSE Returned(_sort_data(_remove_outliers(BeforeOutliers(df))))

(* DataCleaner.clean: the table returned, or the ValueError raised by the  *)
(* structural validation                                                   *)
clean(df) ==
    IF Empty(df) THEN Returned(EmptyFrame)
    ELSE IF ~_validate_structure(df) THEN Raised
    ELSE Returned(_sort_data(_remove_outliers(BeforeOutliers(df))))

aggregated_columns == {"medicamento", "data", "consumo", "estoque_atual"}

(* the rows of one (medicamento, data) group, in table order *)
GroupOf(rows, key) == SelectSeq(rows, LAMBDA row : SameKey(row, key))

(* the first row of every group, the groups in key order (groupby sorts    *)
(* its keys and leaves out a missing key)                                  *)
GroupKeys(rows) ==
    LET keyed == SelectSeq(rows, LAMBDA row :
                    ~IsNaN(row.medicamento) /\ ~IsNaN(row.data))
        sorted == SortRows(keyed)
    IN  RowsAt(sorted, {i \in 1..Len(sorted) :
                    \A j \in 1..(i - 1) : ~SameKey(sorted[j], sorted[i])}, 1)

(* a sum of floats is exact when every term is a multiple of one half *)
BinaryFractions(xs) == \A i \in 1..Len(xs) : xs[i] % 5 = 0

(* a slip: the stock summed like the consumption *)
AggregatedRowsStockSummed(rows, key) ==
    LET group == GroupOf(rows, key)
        cs == ColumnValues(group, "consumo")
        es == ColumnValues(group, "estoque_atual")
    IN  {[medicamento |-> key.medicamento,
          data |-> key.data,
          consumo |-> Num(10 * c),
          estoque_atual |-> Num(10 * e)] :
            c \in RoundOutcomes(Sum(cs), 10, BinaryFractions(cs)),
            e \in RoundOutcomes(Sum(es), 10, BinaryFractions(es))}

(* the rows agg({'consumo': 'sum', 'estoque_atual': 'mean'}) followed by   *)
(* round(0).astype(int) can give for one group                             *)
AggregatedRows(rows, key) ==
    LET group == GroupOf(rows, key)
        cs == ColumnValues(group, "consumo")
        es == ColumnValues(group, "estoque_atual")
    IN  {[medicamento |-> key.medicamento,
          data |-> key.data,
          consumo |-> Num(10 * c),
          estoque_atual |-> Num(10 * e)] :
            c \in RoundOutcomes(Sum(cs), 10, BinaryFractions(cs)),
            e \in RoundOutcomes(Sum(es), 10 * Len(group), BinaryFractions(es))}

RECURSIVE AggregatedTables(_, _)
AggregatedTables(rows, keys) ==
    IF keys = <<>> THEN {<<>>}
    ELSE {<<first>> \o rest :
            first \in AggregatedRows(rows, Head(keys)),
            rest \in AggregatedTables(rows, Tail(keys))}

(* DataCleaner.aggregate_monthly: the tables it can return *)
aggregate_monthly(df) ==
    IF Empty(df) THEN {df}
    ELSE {Table(aggregated_columns, rows) :
            rows \in AggregatedTables(df.rows, GroupKeys(df.rows))}

-----------------------------------------------------------------------------
(* The tables handed to the cleaner *)

Text2024(sep, month) == Str(<<"2", "0", "2", "4">> \o sep \o month)

BaseRow ==
    [medicamento |-> Str(<<"A">>),
     data |-> Text2024(<<"-">>, <<"0", "1">>),
     consumo |-> Num(10),
     estoque_atual |-> Num(20)]

MedicamentoCells ==
    {Str(<<"a">>), Str(<<" ", "A">>), Str(<<"B">>), NaN}

DataCells ==
    {Text2024(<<"/">>, <<"0", "1">>),                          \* 2024/01
     Text2024(<<"-">>, <<"0", "2">>),                          \* 2024-02
     Str(<<"1", "5", "/", "0", "1", "/", "2", "0", "2", "4">>), \* 15/01/2024
     Text2024(<<"-">>, <<"1", "3">>),                          \* 2024-13
     Str(<<"x">>),
     NaN}

ConsumoCells ==
    {Num(30), Num(-20), Str(<<"3", ",", "5">>), Str(<<"x">>), NaN}

EstoqueCells ==
    {Num(30), Num(-10), Str(<<" ", "2", ",", "5">>), NaN}

(* rows written carelessly in every column *)
CarelessRows ==
    {[medicamento |-> Str(<<"a">>),
      data |-> Text2024(<<"/">>, <<"0", "1">>),
      consumo |-> Str(<<"3", ",", "5">>),
      estoque_atual |-> Num(30)],
     [medicamento |-> Str(<<"B">>),
      data |-> Text2024(<<"-">>, <<"0", "2">>),
      consumo |-> Num(-20),
      estoque_atual |-> NaN]}

(* the base row, rows that differ from it in one column, and the careless  *)
(* rows                                                                    *)
MessyRows ==
    {BaseRow}
    \cup CarelessRows
    \cup {[BaseRow EXCEPT !.medicamento = c] : c \in MedicamentoCells}
    \cup {[BaseRow EXCEPT !.data = c] : c \in DataCells}
    \cup {[BaseRow EXCEPT !.consumo = c] : c \in ConsumoCells}
    \cup {[BaseRow EXCEPT !.estoque_atual = c] : c \in EstoqueCells}

input_columns == required_columns \cup {"linha"}

(* a row with the column "linha" added, holding its position in the input *)
Numbered(row, i) ==
    [c \in input_columns |-> IF c = "linha" THEN Num(10 * i) ELSE row[c]]

NumberedTable(rows) ==
    Table(input_columns, [i \in 1..Len(rows) |-> Numbered(rows[i], i)])

MaxMessyRows == 2

MessyTables ==
    {NumberedTable(rows) :
        rows \in UNION {[1..n -> MessyRows] : n \in 0..MaxMessyRows}}

(* A regular series: BlockLen months of one medication with consumption   *)
(* and stock 0, followed by up to MaxExtraRows further rows.               *)
BlockLen == 10
MaxExtraRows == 2

BlockRow(k) ==
    [medicamento |-> Str(<<"A">>),
     data |-> Str(StrftimeYearMonth([Y |-> 2023, m |-> k])),
     consumo |-> Num(0),
     estoque_atual |-> Num(0)]

ExtraRows ==
    [medicamento : {Str(<<"A">>)},
     data : {Text2024(<<"-">>, <<"0", "1">>), Text2024(<<"-">>, <<"0", "2">>)},
     consumo : {Num(0), Num(10), Num(90)},
     estoque_atual : {Num(0), Num(90)}]

SeriesTables ==
    {NumberedTable([k \in 1..BlockLen |-> BlockRow(k)] \o extra) :
        extra \in UNION {[1..n -> ExtraRows] : n \in 0..MaxExtraRows}}

(* tables with any subset of the required columns, with no row or one *)
PartialTables ==
    UNION {{Table(cols, <<>>), Table(cols, <<[c \in cols |-> BaseRow[c]]>>)} :
            cols \in SUBSET required_columns}

CleanInputs == MessyTables \cup SeriesTables \cup PartialTables

NoResult == [status |-> "none", df |-> EmptyFrame]

CleanIdle ==
    /\ cleanInput = EmptyFrame
    /\ cleaned = NoResult
    /\ recleaned = NoResult
    /\ monthly = EmptyFrame
    /\ cleanPc = "input"

(* cleaner.clean(df_raw) *)
Clean ==
    /\ cleanPc = "input"
    /\ cleaned' = clean(cleanInput)
    /\ cleanPc' = IF cleaned'.status = "ok" THEN "cleaned" ELSE "failed"
    /\ UNCHANGED <<cleanInput, recleaned, monthly>>
    /\ UNCHANGED <<riskVars, featVars, forecastVars, trainVars, predictorVars,
                   reportVars, loopVars, mergeVars>>

(* cleaner.clean applied to a table clean returned *)
CleanAgain ==
    /\ cleanPc = "cleaned"
    /\ recleaned' = clean(cleaned.df)
    /\ cleanPc' = "recleaned"
    /\ UNCHANGED <<cleanInput, cleaned, monthly>>
    /\ UNCHANGED <<riskVars, featVars, forecastVars, trainVars, predictorVars,
                   reportVars, loopVars, mergeVars>>

(* cleaner.aggregate_monthly(df_clean) *)
AggregateMonthly ==
    /\ cleanPc = "cleaned"
    /\ monthly' \in aggregate_monthly(cleaned.df)
    /\ cleanPc' = "aggregated"
    /\ UNCHANGED <<cleanInput, cleaned, recleaned>>
    /\ UNCHANGED <<riskVars, featVars, forecastVars, trainVars, predictorVars,
                   reportVars, loopVars, mergeVars>>

InitClean ==
    /\ cleanInput \in CleanInputs
    /\ cleanPc = "input"
    /\ cleaned = NoResult
    /\ recleaned = NoResult
    /\ monthly = EmptyFrame
    /\ RiskIdle
    /\ FeaturesIdle
    /\ ForecastIdle
    /\ TrainIdle
    /\ PredictorIdle
    /\ ReportIdle
    /\ LoopIdle
    /\ MergeIdle

NextClean == Clean \/ CleanAgain \/ AggregateMonthly

SpecClean == InitClean /\ [][NextClean]_vars

-----------------------------------------------------------------------------
(* Claims about the cleaner, checked under SpecClean *)

CleanReturned == cleanPc \in {"cleaned", "recleaned", "aggregated"}

InRows == cleanInput.rows

OutRows == cleaned.df.rows

(* the positions in the input of the rows clean returned *)
RetainedLines == {OutRows[k].linha.v \div 10 : k \in 1..Len(OutRows)}

Numbered_Input == "linha" \in cleanInput.cols

(* C5: no two rows of the output of clean have the same normalized         *)
(* medication name and the same normalized month.                          *)
C5_UniquePerMedicationMonth ==
    CleanReturned =>
        \A i, j \in 1..Len(OutRows) : i # j => ~SameKey(OutRows[i], OutRows[j])

(* C6: clean(clean(X)) has exactly the same rows, in the same order, as    *)
(* clean(X).                                                               *)
C6_CleanIdempotent ==
    cleanPc = "recleaned" =>
        /\ recleaned.status = "ok"
        /\ recleaned.df.rows = cleaned.df.rows

(* an input row names a medication and a month that format_date accepts *)
ValidKey(row) ==
    /\ row.medicamento.t = "str"
    /\ row.data.t = "str"
    /\ MatchesYearMonth(FormatDateText(row.data.s))

FirstOccurrence(i) == \A k \in 1..(i - 1) : ~SameKey(InRows[k], InRows[i])

LaterDuplicates(i) == {j \in (i + 1)..Len(InRows) : SameKey(InRows[i], InRows[j])}

(* C7 as stated: of several input rows with the same (medication, month)   *)
(* pair, clean retains exactly one, the first occurrence in input order.   *)
C7_FirstOccurrenceRetained ==
    (CleanReturned /\ Numbered_Input) =>
        \A i \in 1..Len(InRows) :
            (FirstOccurrence(i) /\ ValidKey(InRows[i]) /\ LaterDuplicates(i) # {})
                => /\ i \in RetainedLines
                   /\ LaterDuplicates(i) \cap RetainedLines = {}

(* C7 as amended: of several input rows with the same (medication, month)  *)
(* pair, clean retains at most one and never a later duplicate; the first  *)
(* occurrence is retained unless the removal of outliers takes it out.     *)
C7_FirstOccurrenceRetainedAmended ==
    (CleanReturned /\ Numbered_Input) =>
        \A i \in 1..Len(InRows) :
            (FirstOccurrence(i) /\ ValidKey(InRows[i]) /\ LaterDuplicates(i) # {})
                => /\ LaterDuplicates(i) \cap RetainedLines = {}
                   /\ \/ i \in RetainedLines
                      \/ /\ \E row \in Range(BeforeOutliers(cleanInput).rows) :
                                row.linha.v = 10 * i
                         /\ _remove_outliers(BeforeOutliers(cleanInput))
                                # BeforeOutliers(cleanInput)

C7_Witness ==
    /\ CleanReturned
    /\ Numbered_Input
    /\ \E i \in 1..Len(InRows) :
        /\ FirstOccurrence(i)
        /\ ValidKey(InRows[i])
        /\ \E j \in LaterDuplicates(i) : InRows[j].consumo # InRows[i].consumo
        /\ i \in RetainedLines
        /\ LaterDuplicates(i) \cap RetainedLines = {}

(* C8: every row in the output of clean has consumption >= 0 and           *)
(* current_stock >= 0, whatever the input values were.                     *)
C8_NonNegativeAfterClean ==
    CleanReturned =>
        \A k \in 1..Len(OutRows) :
            /\ OutRows[k].consumo.t = "num"
            /\ OutRows[k].consumo.v >= 0
            /\ OutRows[k].estoque_atual.t = "num"
            /\ OutRows[k].estoque_atual.v >= 0

(* rows that held a negative number, an unparsable text and a missing      *)
(* value came through with 0                                               *)
C8_Witness ==
    /\ CleanReturned
    /\ Numbered_Input
    /\ \E a, b \in 1..Len(OutRows) :
        LET in(k) == InRows[OutRows[k].linha.v \div 10]
        IN  /\ in(a).consumo = Num(-20)
            /\ OutRows[a].consumo = Num(0)
            /\ IsNaN(in(a).estoque_atual)
            /\ OutRows[a].estoque_atual = Num(0)
            /\ in(b).consumo = Str(<<"x">>)
            /\ OutRows[b].consumo = Num(0)

MissingRequired == ~(required_columns \subseteq cleanInput.cols)

(* C9 as stated: clean fails with a schema error whenever a required       *)
(* column is missing from the input; it never returns a result for such    *)
(* an input.                                                               *)
C9_MissingColumnFails ==
    (cleanPc # "input" /\ MissingRequired) => cleaned.status = "error"

(* C9 as amended: clean fails with a schema error whenever a required      *)
(* column is missing from an input that is not empty (it has a row and a   *)
(* column); an empty input is answered with an empty table, its columns    *)
(* unchecked.                                                              *)
C9_MissingColumnFailsAmended ==
    (cleanPc # "input" /\ MissingRequired) =>
        IF Empty(cleanInput)
        THEN cleaned = Returned(EmptyFrame)
        ELSE cleaned.status = "error" /\ cleaned.df.rows = <<>>

C9_Witness ==
    /\ cleanPc = "failed"
    /\ MissingRequired
    /\ cleanInput.cols # {}
    /\ cleanInput.rows # <<>>
    /\ cleaned.status = "error"

MonthlyRows == monthly.rows

(* the rows of the aggregated table's input that share the key of row *)
MonthlyGroup(row) == SelectSeq(OutRows, LAMBDA r : SameKey(r, row))

OneRowPerPair ==
    /\ \A k \in 1..Len(OutRows) :
            Cardinality({m \in 1..Len(MonthlyRows) :
                            SameKey(MonthlyRows[m], OutRows[k])}) = 1
    /\ \A m \in 1..Len(MonthlyRows) : MonthlyGroup(MonthlyRows[m]) # <<>>

(* whole is the number of tenths of an integer nearest to num / den *)
NearestWhole(whole, num, den) ==
    /\ whole % 10 = 0
    /\ 2 * (whole * den - 10 * num) <= 10 * den
    /\ 2 * (10 * num - whole * den) <= 10 * den

StockIsRoundedMean(row) ==
    LET es == ColumnValues(MonthlyGroup(row), "estoque_atual")
    IN  NearestWhole(row.estoque_atual.v, Sum(es), 10 * Len(es))

(* C10 as stated: aggregate_monthly gives exactly one row for each         *)
(* (medication, month) pair of its input and no other; the row's           *)
(* consumption is the sum of the pair's consumption and its stock the mean *)
(* of the pair's stock rounded to an integer.                              *)
C10_AggregateMonthly ==
    cleanPc = "aggregated" =>
        /\ OneRowPerPair
        /\ \A m \in 1..Len(MonthlyRows) :
            /\ MonthlyRows[m].consumo.v
                    = Sum(ColumnValues(MonthlyGroup(MonthlyRows[m]), "consumo"))
            /\ StockIsRoundedMean(MonthlyRows[m])

(* C10 as amended: the same, the row's consumption being the sum of the    *)
(* pair's consumption rounded to an integer.                               *)
C10_AggregateMonthlyAmended ==
    cleanPc = "aggregated" =>
        /\ OneRowPerPair
        /\ \A m \in 1..Len(MonthlyRows) :
            /\ NearestWhole(MonthlyRows[m].consumo.v,
                    Sum(ColumnValues(MonthlyGroup(MonthlyRows[m]), "consumo")), 10)
            /\ StockIsRoundedMean(MonthlyRows[m])

C10_Witness ==
    /\ cleanPc = "aggregated"
    /\ \E m \in 1..Len(MonthlyRows) :
        LET group == MonthlyGroup(MonthlyRows[m])
        IN  /\ Len(group) >= 2
            /\ Sum(ColumnValues(group, "consumo")) = 45
            /\ MonthlyRows[m].consumo = Num(40)
            /\ Sum(ColumnValues(group, "estoque_atual")) = 50
            /\ MonthlyRows[m].estoque_atual = Num(20)
    /\ Len(MonthlyRows) < Len(OutRows)

-----------------------------------------------------------------------------
(* RiskClassifier *)

RiskLevels == {"Alto", "Medio", "Baixo"}

(* razao < num/den for razao = estoque / previsao, previsao > 0 *)
RazaoLT(estoque, previsao, num, den) == estoque * den < num * previsao

(* a slip: the margin taken as a difference instead of a quotient *)
classify_risk_difference(estoque, previsao) ==
    IF previsao = 0 THEN "Baixo"
    ELSE IF estoque - previsao < 1 THEN "Alto"
    ELSE IF 5 * (estoque - previsao) < 6 THEN "Medio"
    ELSE "Baixo"

(* a slip: the 1.2 threshold taken inclusively *)
classify_risk_inclusive(estoque, previsao) ==
    IF previsao = 0 THEN "Baixo"
    ELSE IF RazaoLT(estoque, previsao, 1, 1) THEN "Alto"
    ELSE IF 5 * estoque <= 6 * previsao THEN "Medio"
    ELSE "Baixo"

(* a slip: the arguments taken in the other order *)
classify_risk_swapped(estoque, previsao) ==
    IF estoque = 0 THEN "Baixo"
    ELSE IF RazaoLT(previsao, estoque, 1, 1) THEN "Alto"
    ELSE IF RazaoLT(previsao, estoque, 6, 5) THEN "Medio"
    ELSE "Baixo"

(* a slip: stock equal to the forecast taken as a shortfall *)
classify_risk_at_most(estoque, previsao) ==
    IF previsao = 0 THEN "Baixo"
    ELSE IF estoque <= previsao THEN "Alto"
    ELSE IF RazaoLT(estoque, previsao, 6, 5) THEN "Medio"
    ELSE "Baixo"

classify_risk(estoque, previsao) ==
    IF previsao = 0 THEN "Baixo"
    ELSE IF RazaoLT(estoque, previsao, 1, 1) THEN "Alto"
    ELSE IF RazaoLT(estoque, previsao, 6, 5) THEN "Medio"
    ELSE "Baixo"

(* round(estoque / previsao, 2), in hundredths; the quotient is held      *)
(* exactly when it is a binary fraction                                    *)
Round2Outcomes(estoque, previsao) ==
    RoundOutcomes(100 * estoque, previsao,
                  IsPowerOfTwo(previsao \div GCD(estoque, previsao)))

(* the outcomes of the razao_estoque column for one row *)
RazaoEstoqueOutcomes(row) ==
    IF row.consumo_previsto > 0
    THEN Round2Outcomes(row.estoque_atual, row.consumo_previsto)
    ELSE {0}

(* a slip: the shortfall left unclamped *)
DeficitUnclamped(row) == row.consumo_previsto - row.estoque_atual

Deficit(row) == Max(0, row.consumo_previsto - row.estoque_atual)

RiskInputRows ==
    [medicamento : {"A"}, estoque_atual : StockValues,
     consumo_previsto : ForecastValues]

(* one classified row, its razao_estoque being the outcome r *)
ClassifiedRow(row, r) ==
    [medicamento |-> row.medicamento,
     estoque_atual |-> row.estoque_atual,
     consumo_previsto |-> row.consumo_previsto,
     nivel_risco |-> classify_risk(row.estoque_atual, row.consumo_previsto),
     razao_estoque |-> r,
     deficit |-> Deficit(row)]

(* the tables classify_batch can return for df: one outcome per row *)
RECURSIVE classify_batch(_)
classify_batch(df) ==
    IF df = <<>> THEN {<<>>}
    ELSE LET front == SubSeq(df, 1, Len(df) - 1)
             last == df[Len(df)]
         IN  {Append(t, ClassifiedRow(last, r)) :
                t \in classify_batch(front), r \in RazaoEstoqueOutcomes(last)}

RiskTables == UNION {[1..n -> RiskInputRows] : n \in 0..MaxRiskRows}

(* RiskClassifier.classify_batch applied to the table the caller built *)
ClassifyBatch ==
    /\ riskPc = "input"
    /\ riskTable' \in classify_batch(riskInput)
    /\ riskPc' = "classified"
    /\ UNCHANGED riskInput
    /\ UNCHANGED <<cleanVars, featVars, forecastVars, trainVars, predictorVars,
                   reportVars, loopVars, mergeVars>>

InitRisk ==
    /\ riskInput \in RiskTables
    /\ riskTable = <<>>
    /\ riskPc = "input"
    /\ CleanIdle
    /\ FeaturesIdle
    /\ ForecastIdle
    /\ TrainIdle
    /\ PredictorIdle
    /\ ReportIdle
    /\ LoopIdle
    /\ MergeIdle

NextRisk == ClassifyBatch

SpecRisk == InitRisk /\ [][NextRisk]_vars

-----------------------------------------------------------------------------
(* Claims about the risk classifier, checked under SpecRisk *)

Classified == riskPc = "classified"

RiskRowIndices == 1..Len(riskTable)

Severity(level) ==
    IF level = "Alto" THEN 3 ELSE IF level = "Medio" THEN 2 ELSE 1

(* C1: for non-negative stock and forecast, classify_risk returns Baixo    *)
(* when the forecast is 0; otherwise, with ratio = stock / forecast, Alto  *)
(* exactly when ratio < 1.0, Medio exactly when 1.0 <= ratio < 1.2 and     *)
(* Baixo exactly when ratio >= 1.2; stock 1100 against forecast 1000 is    *)
(* Medio and stock 1200 against forecast 1000 is Baixo.                    *)
C1_ClassifyRiskThresholds ==
    Classified =>
        \A i \in RiskRowIndices :
            LET s == riskTable[i].estoque_atual
                f == riskTable[i].consumo_previsto
                level == riskTable[i].nivel_risco
            IN  /\ f = 0 => level = "Baixo"
                /\ f > 0 =>
                    /\ (level = "Alto") <=> (100 * s < 100 * f)
                    /\ (level = "Medio") <=> (100 * f <= 100 * s /\ 100 * s < 120 * f)
                    /\ (level = "Baixo") <=> (100 * s >= 120 * f)
                /\ (s = 1100 /\ f = 1000) => level = "Medio"
                /\ (s = 1200 /\ f = 1000) => level = "Baixo"

C1_Witness ==
    /\ Classified
    /\ \E i, j \in RiskRowIndices :
        /\ riskTable[i].estoque_atual = 1100
        /\ riskTable[i].consumo_previsto = 1000
        /\ riskTable[i].nivel_risco = "Medio"
        /\ riskTable[j].estoque_atual = 1200
        /\ riskTable[j].consumo_previsto = 1000
        /\ riskTable[j].nivel_risco = "Baixo"

(* C2 as stated: any two classified rows with the same stock_ratio have    *)
(* the same risk_level.                                                    *)
C2_LevelFunctionOfStockRatio ==
    Classified =>
        \A i, j \in RiskRowIndices :
            riskTable[i].razao_estoque = riskTable[j].razao_estoque
                => riskTable[i].nivel_risco = riskTable[j].nivel_risco

(* C2 as amended: any two classified rows with the same stock_ratio have   *)
(* the same risk_level, provided both forecasts are positive or both are   *)
(* zero and the shared stock_ratio is neither 1.0 nor 1.2 (the two values  *)
(* that rounding to two decimals reaches from both sides of a threshold).  *)
C2_LevelFunctionOfStockRatioAmended ==
    Classified =>
        \A i, j \in RiskRowIndices :
            /\ riskTable[i].razao_estoque = riskTable[j].razao_estoque
            /\ (riskTable[i].consumo_previsto = 0) <=> (riskTable[j].consumo_previsto = 0)
            /\ riskTable[i].razao_estoque \notin {100, 120}
            => riskTable[i].nivel_risco = riskTable[j].nivel_risco

C2_Witness ==
    /\ Classified
    /\ \E i, j \in RiskRowIndices :
        /\ riskTable[i].razao_estoque = riskTable[j].razao_estoque
        /\ riskTable[i].razao_estoque = 150
        /\ riskTable[i].estoque_atual # riskTable[j].estoque_atual
        /\ riskTable[i].consumo_previsto > 0
        /\ riskTable[j].consumo_previsto > 0
        /\ riskTable[i].nivel_risco = "Baixo"
        /\ riskTable[j].nivel_risco = "Baixo"

(* C3 as stated: for any two classified rows, if the first's stock_ratio   *)
(* is strictly smaller than the second's, the second's risk level is not   *)
(* more severe than the first's (Alto > Medio > Baixo).                    *)
C3_MonotonicInStockRatio ==
    Classified =>
        \A i, j \in RiskRowIndices :
            riskTable[i].razao_estoque < riskTable[j].razao_estoque
                => Severity(riskTable[j].nivel_risco) <= Severity(riskTable[i].nivel_risco)

(* C3 as amended: the same, for two classified rows whose forecasts are    *)
(* both positive (a zero forecast has stock_ratio 0 and level Baixo).      *)
C3_MonotonicInStockRatioAmended ==
    Classified =>
        \A i, j \in RiskRowIndices :
            /\ riskTable[i].consumo_previsto > 0
            /\ riskTable[j].consumo_previsto > 0
            /\ riskTable[i].razao_estoque < riskTable[j].razao_estoque
            => Severity(riskTable[j].nivel_risco) <= Severity(riskTable[i].nivel_risco)

C3_Witness ==
    /\ Classified
    /\ \E i, j \in RiskRowIndices :
        /\ riskTable[i].consumo_previsto > 0
        /\ riskTable[j].consumo_previsto > 0
        /\ riskTable[i].razao_estoque < riskTable[j].razao_estoque
        /\ riskTable[i].nivel_risco = "Alto"
        /\ riskTable[j].nivel_risco = "Medio"

(* C4: every row produced by classify_batch has                            *)
(* deficit = max(0, predicted_consumption - current_stock), so the deficit *)
(* is never negative.                                                      *)
C4_DeficitIsClampedShortfall ==
    Classified =>
        \A i \in RiskRowIndices :
            LET s == riskTable[i].estoque_atual
                f == riskTable[i].consumo_previsto
                d == riskTable[i].deficit
            IN  /\ d >= 0
                /\ f > s => d = f - s
                /\ f <= s => d = 0

C4_Witness ==
    /\ Classified
    /\ \E i, j \in RiskRowIndices :
        /\ riskTable[i].consumo_previsto > riskTable[i].estoque_atual
        /\ riskTable[i].deficit > 0
        /\ riskTable[j].consumo_previsto < riskTable[j].estoque_atual
        /\ riskTable[j].deficit = 0

-----------------------------------------------------------------------------
(* Exact numbers.  The consumption of a month and every feature derived    *)
(* from it is held exactly, as a fraction in lowest terms: the same        *)
(* arithmetic on the same operands gives the same float, so two exact      *)
(* values that agree are floats that agree.  A value the code obtains by   *)
(* a square root (a standard deviation) is held by its square, a sine or   *)
(* cosine of a month by the month.                                         *)

Abs(x) == IF x < 0 THEN -x ELSE x

(* the one element of a set of one element *)
Only(S) == CHOOSE x \in S : TRUE

Lowest(n, d) ==
    LET g == GCD(Abs(n), Abs(d))
        sign == IF d < 0 THEN -1 ELSE 1
    IN  [n |-> (sign * n) \div g, d |-> (sign * d) \div g]

(* n / d in lowest terms; here and below the operands are evaluated once,  *)
(* before they are used                                                    *)
Rat(n, d) == Only({Lowest(x, y) : x \in {n}, y \in {d}})

Whole(k) == [n |-> k, d |-> 1]

Zero == Whole(0)

RAdd(a, b) == Only({Lowest(x.n * y.d + y.n * x.d, x.d * y.d) : x \in {a}, y \in {b}})

RSub(a, b) == Only({Lowest(x.n * y.d - y.n * x.d, x.d * y.d) : x \in {a}, y \in {b}})

RMul(a, b) == Only({Lowest(x.n * y.n, x.d * y.d) : x \in {a}, y \in {b}})

RDiv(a, b) == Only({Lowest(x.n * y.d, x.d * y.n) : x \in {a}, y \in {b}})

RLess(a, b) == a.n * b.d < b.n * a.d

RECURSIVE RSum(_)
RSum(xs) == IF xs = <<>> THEN Zero ELSE RAdd(Head(xs), RSum(Tail(xs)))

(* k times the square root of r *)
Root(r, k) == [root_of |-> r, times |-> k]

-----------------------------------------------------------------------------
(* Calendar.  A month token 'YYYY-MM' is the pair of its year and month    *)
(* fields; a datetime is the number of its day, counted from the first     *)
(* day of BaseYear.                                                        *)

BaseYear == 2023

RECURSIVE DaysBeforeYear(_)
DaysBeforeYear(y) ==
    IF y <= BaseYear THEN 0
    ELSE DaysBeforeYear(y - 1) + (IF IsLeapYear(y - 1) THEN 366 ELSE 365)

RECURSIVE DaysBeforeMonth(_, _)
DaysBeforeMonth(y, m) ==
    IF m <= 1 THEN 0 ELSE DaysBeforeMonth(y, m - 1) + DaysInMonth(y, m - 1)

Token(y, m) == [Y |-> y, m |-> m]

ValidToken(data) == data.m \in 1..12

(* pd.to_datetime(data + '-01'), for a token it accepts *)
to_datetime(data) == DaysBeforeYear(data.Y) + DaysBeforeMonth(data.Y, data.m)

RECURSIVE MonthOfDay(_, _, _)
MonthOfDay(day, y, m) ==
    IF day < DaysInMonth(y, m) THEN Token(y, m)
    ELSE IF m = 12 THEN MonthOfDay(day - DaysInMonth(y, m), y + 1, 1)
    ELSE MonthOfDay(day - DaysInMonth(y, m), y, m + 1)

(* strftime('%Y-%m') of the datetime of a day *)
strftime(day) == MonthOfDay(day, BaseYear, 1)

TokenLess(d1, d2) == d1.Y < d2.Y \/ (d1.Y = d2.Y /\ d1.m < d2.m)

-----------------------------------------------------------------------------
(* FeatureEngineer *)

(* a column of a table *)
Column(rows, col) == [i \in 1..Len(rows) |-> rows[i][col]]

(* the number of rows that sort_values on the month puts before row i:    *)
(* those of an earlier month, and those of its own month that came before  *)
(* it                                                                      *)
RowsBefore(rows, i) ==
    Cardinality({j \in 1..Len(rows) :
                    \/ TokenLess(rows[j].data, rows[i].data)
                    \/ (rows[j].data = rows[i].data /\ j < i)})

(* sort_values on the month, rows of one month left in the order they had  *)
SortByDate(rows) ==
    [k \in 1..Len(rows) |-> rows[CHOOSE i \in 1..Len(rows) : RowsBefore(rows, i) = k - 1]]

(* the trailing window of w rows ending at row i *)
Window(xs, i, w) == SubSeq(xs, Max(1, i - w + 1), i)

Mean(xs) == RDiv(RSum(xs), Whole(Len(xs)))

Squares(xs) == [i \in 1..Len(xs) |-> RMul(xs[i], xs[i])]

(* the sample variance (ddof = 1) of two values or more *)
Variance(xs) ==
    LET n == Len(xs)
        total == RSum(xs)
    IN  RDiv(RSub(RSum(Squares(xs)), RDiv(RMul(total, total), Whole(n))), Whole(n - 1))

(* rolling(window, min_periods=1).std().fillna(0) *)
RollingStd(xs, i, w) ==
    IF Len(Window(xs, i, w)) < 2 THEN Root(Zero, 1) ELSE Root(Variance(Window(xs, i, w)), 1)

(* std / (mean + 1) * 100 *)
CoefficientOfVariation(xs, i, w) ==
    LET window == Window(xs, i, w)
        over == RAdd(Mean(window), Whole(1))
    IN  IF Len(window) < 2 THEN Root(Zero, 100)
        ELSE Root(RDiv(Variance(window), RMul(over, over)), 100)

RECURSIVE RMaximum(_)
RMaximum(xs) ==
    IF Len(xs) = 1 THEN xs[1]
    ELSE LET rest == RMaximum(Tail(xs)) IN IF RLess(rest, xs[1]) THEN xs[1] ELSE rest

RECURSIVE RMinimum(_)
RMinimum(xs) ==
    IF Len(xs) = 1 THEN xs[1]
    ELSE LET rest == RMinimum(Tail(xs)) IN IF RLess(xs[1], rest) THEN xs[1] ELSE rest

RECURSIVE WeightedSum(_, _)
WeightedSum(ys, k) ==
    IF ys = <<>> THEN Zero
    ELSE RAdd(RMul(Whole(k), Head(ys)), WeightedSum(Tail(ys), k + 1))

(* the least-squares slope of twelve values against the positions 0..11 *)
Slope12(ys) ==
    RDiv(RSub(RMul(Whole(12), WeightedSum(ys, 0)), RMul(Whole(66), RSum(ys))), Whole(1716))

(* ewm(span, adjust=False).mean(): with alpha = 2 / (span + 1), the first  *)
(* value, then (1 - alpha) * previous + alpha * value                      *)
RECURSIVE Ewm(_, _, _)
Ewm(xs, i, span) ==
    IF i = 1 THEN xs[1]
    ELSE Only({Lowest((span - 1) * e.n * x.d + 2 * x.n * e.d, (span + 1) * e.d * x.d) :
                    e \in {Ewm(xs, i - 1, span)}, x \in {xs[i]}})

(* pct_change().fillna(0), infinities replaced by 0 *)
PctChange(xs, i) ==
    IF i = 1 \/ xs[i - 1] = Zero THEN Zero
    ELSE RDiv(RSub(xs[i], xs[i - 1]), xs[i - 1])

RECURSIVE MinYear(_)
MinYear(rows) ==
    IF Len(rows) = 1 THEN rows[1].data.Y
    ELSE LET rest == MinYear(Tail(rows))
         IN  IF rows[1].data.Y < rest THEN rows[1].data.Y ELSE rest

(* groupby('mes')['consumo'].transform('mean') *)
SeasonalMean(rows, i) ==
    Mean(Column(SelectSeq(rows, LAMBDA r : r.data.m = rows[i].data.m), "consumo"))

(* row i of the table create_features builds from the sorted rows *)
FeatureRow(rows, i) ==
    LET xs == Column(rows, "consumo")
        mes == rows[i].data.m
        ano == rows[i].data.Y
        sazonalidade == SeasonalMean(rows, i)
    IN  [medicamento |-> rows[i].medicamento,
         data |-> rows[i].data,
         consumo |-> xs[i],
         estoque_atual |-> rows[i].estoque_atual,
         mes |-> mes,
         trimestre |-> ((mes - 1) \div 3) + 1,
         ano |-> ano,
         mes_idx |-> (ano - MinYear(rows)) * 12 + mes,
         consumo_media_3m |-> Mean(Window(xs, i, 3)),
         consumo_std_3m |-> RollingStd(xs, i, 3),
         consumo_media_6m |-> Mean(Window(xs, i, 6)),
         consumo_std_6m |-> RollingStd(xs, i, 6),
         consumo_media_12m |-> Mean(Window(xs, i, 12)),
         consumo_max_12m |-> RMaximum(Window(xs, i, 12)),
         consumo_min_12m |-> RMinimum(Window(xs, i, 12)),
         tendencia_12m |-> IF i < 12 THEN Zero ELSE Slope12(Window(xs, i, 12)),
         tendencia_3m |-> IF i <= 3 THEN Zero ELSE RSub(xs[i], xs[i - 3]),
         sazonalidade_mes |-> sazonalidade,
         razao_sazonal |-> RDiv(xs[i], RAdd(sazonalidade, Whole(1))),
         mes_sin |-> <<"sin", mes>>,
         mes_cos |-> <<"cos", mes>>,
         ma_3 |-> Mean(Window(xs, i, 3)),
         ma_6 |-> Mean(Window(xs, i, 6)),
         ema_3 |-> Ewm(xs, i, 3),
         ema_6 |-> Ewm(xs, i, 6),
         variacao_mensal |-> PctChange(xs, i),
         aceleracao |-> IF i = 1 THEN Zero ELSE RSub(PctChange(xs, i), PctChange(xs, i - 1)),
         cv_3m |-> CoefficientOfVariation(xs, i, 3),
         cv_6m |-> CoefficientOfVariation(xs, i, 6),
         desvio_ma3 |-> RSub(xs[i], Mean(Window(xs, i, 3))),
         desvio_ma6 |-> RSub(xs[i], Mean(Window(xs, i, 6))),
         crescimento |-> IF RLess(Mean(Window(xs, i, 6)), xs[i]) THEN 1 ELSE 0,
         volatilidade |-> RollingStd(xs, i, 6)]

(* FeatureEngineer.create_features, for rows whose months pd.to_datetime   *)
(* accepts                                                                 *)
create_features(df) ==
    LET rows == SortByDate(df)
    IN  [i \in 1..Len(rows) |-> FeatureRow(rows, i)]

-----------------------------------------------------------------------------
(* Monthly series of one medication, as aggregate_monthly hands them to    *)
(* create_features: one row a month, in chronological order.               *)

MaxSeriesLen == 3
YearLen == 12
MaxTailRows == 1

SeriesRow(med, data, consumo) ==
    [medicamento |-> med, data |-> data, consumo |-> consumo, estoque_atual |-> Whole(5)]

SeriesMonths == {Token(2023, 1), Token(2023, 2), Token(2024, 1), Token(2024, 2)}

ConsumptionValues == {Zero, Whole(1), Whole(3)}

Chronological(months) ==
    \A i \in 1..(Len(months) - 1) : TokenLess(months[i], months[i + 1])

(* short series, gaps between the months allowed *)
ShortSeries(med) ==
    UNION {{[i \in 1..n |-> SeriesRow(med, months[i], xs[i])] :
                months \in {ms \in [1..n -> SeriesMonths] : Chronological(ms)},
                xs \in [1..n -> ConsumptionValues]} : n \in 0..MaxSeriesLen}

(* the k-th month counted from January of BaseYear *)
ConsecutiveMonth(k) == Token(BaseYear + ((k - 1) \div 12), ((k - 1) % 12) + 1)

(* a year or more without consumption, then the months that follow it *)
LongSeries(med) ==
    UNION {{[i \in 1..(YearLen + n) |->
                SeriesRow(med, ConsecutiveMonth(i),
                          IF i <= YearLen THEN Zero ELSE xs[i - YearLen])] :
                xs \in [1..n -> ConsumptionValues]} : n \in 0..MaxTailRows}

FeatureSeries == ShortSeries("A") \cup LongSeries("A")

(* feature_engineer.create_features(med_data) *)
CreateFeatures ==
    /\ featPc = "input"
    /\ featTable' = create_features(featInput)
    /\ featPc' = "created"
    /\ UNCHANGED <<featInput, featPrefix>>
    /\ UNCHANGED <<riskVars, cleanVars, forecastVars, trainVars, predictorVars,
                   reportVars, loopVars, mergeVars>>

(* create_features applied to the series as it stood at one of its months  *)
CreateFeaturesOfPrefix ==
    /\ featPc = "created"
    /\ \E t \in 1..Len(featInput) :
            featPrefix' = create_features(SubSeq(featInput, 1, t))
    /\ featPc' = "prefixed"
    /\ UNCHANGED <<featInput, featTable>>
    /\ UNCHANGED <<riskVars, cleanVars, forecastVars, trainVars, predictorVars,
                   reportVars, loopVars, mergeVars>>

InitFeatures ==
    /\ featInput \in FeatureSeries
    /\ featTable = <<>>
    /\ featPrefix = <<>>
    /\ featPc = "input"
    /\ RiskIdle
    /\ CleanIdle
    /\ ForecastIdle
    /\ TrainIdle
    /\ PredictorIdle
    /\ ReportIdle
    /\ LoopIdle
    /\ MergeIdle

NextFeatures == CreateFeatures \/ CreateFeaturesOfPrefix

SpecFeatures == InitFeatures /\ [][NextFeatures]_vars

(* C11: every feature of row t computed from the full series equals the   *)
(* feature computed from the prefix of the series that ends at row t.      *)
C11_FeaturesCausal ==
    featPc = "prefixed" => featPrefix[Len(featPrefix)] = featTable[Len(featPrefix)]

-----------------------------------------------------------------------------
(* MedicationPredictor.  The fitted regressor is a fixed function of the   *)
(* feature columns it was fitted on; the ones modelled return a negative   *)
(* constant, a value halfway between two whole numbers, a value that       *)
(* follows the rolling mean, and a value that follows the calendar month.  *)

Regressors == {"falling", "half", "mean", "month"}

(* self.model.predict(X), for a row X *)
Regress(kind, X) ==
    CASE kind = "falling" -> Whole(-3)
      [] kind = "half" -> Rat(5, 2)
      [] kind = "mean" -> RAdd(X.consumo_media_3m, Rat(1, 2))
      [] kind = "month" -> Whole(X.mes - 2)

exclude_cols == {"medicamento", "data", "consumo", "estoque_atual", "data_dt"}

(* the columns of the feature table that prepare_data keeps, in table order *)
FeatureColumns ==
    <<"mes", "trimestre", "ano", "mes_idx",
      "consumo_media_3m", "consumo_std_3m", "consumo_media_6m", "consumo_std_6m",
      "consumo_media_12m", "consumo_max_12m", "consumo_min_12m",
      "tendencia_12m", "tendencia_3m",
      "sazonalidade_mes", "razao_sazonal", "mes_sin", "mes_cos",
      "ma_3", "ma_6", "ema_3", "ema_6",
      "variacao_mensal", "aceleracao", "cv_3m", "cv_6m",
      "desvio_ma3", "desvio_ma6", "crescimento", "volatilidade">>

Unfitted == [kind |-> "unfitted", columns |-> {}]

(* the regressor after fit on a table of the given columns *)
Fitted(kind, columns) == [kind |-> kind, columns |-> columns]

Predicted(value) == [status |-> "ok", value |-> value]

PredictRaised == [status |-> "error", value |-> Zero]

RMax(a, b) == IF RLess(a, b) THEN b ELSE a

(* a slip: the output of the regressor returned as it is *)
predict_unclamped(self, X) ==
    IF self.feature_names # <<>> /\ ~(Range(self.feature_names) \subseteq DOMAIN X)
    THEN PredictRaised
    ELSE LET selected == IF self.feature_names # <<>>
                         THEN [c \in Range(self.feature_names) |-> X[c]]
                         ELSE X
         IN  IF self.model.kind = "unfitted" \/ DOMAIN selected # self.model.columns
             THEN PredictRaised
             ELSE Predicted(Regress(self.model.kind, selected))

(* a slip: the columns the input has are used, the missing ones ignored *)
predict_lenient(self, X) ==
    IF self.model.kind = "unfitted" THEN PredictRaised
    ELSE Predicted(RMax(Regress(self.model.kind, X), Zero))

(* MedicationPredictor.predict for a table of one row: the prediction, or  *)
(* the KeyError of the column selection, or the error the regressor raises *)
(* when it is not fitted or was fitted on other columns                    *)
predict(self, X) ==
    IF self.feature_names # <<>> /\ ~(Range(self.feature_names) \subseteq DOMAIN X)
    THEN PredictRaised
    ELSE LET selected == IF self.feature_names # <<>>
                         THEN [c \in Range(self.feature_names) |-> X[c]]
                         ELSE X
         IN  IF self.model.kind = "unfitted" \/ DOMAIN selected # self.model.columns
             THEN PredictRaised
             ELSE Predicted(RMax(Regress(self.model.kind, selected), Zero))

(* the metrics train computed, named after the regressor they measure *)
Metrics(kind) == <<"metrics", kind>>

(* the predictor train_medication_model returns for a table whose feature  *)
(* columns are the given ones                                              *)
TrainedOn(kind, columns) ==
    [model |-> Fitted(kind, Range(columns)),
     feature_names |-> columns,
     metrics |-> Metrics(kind)]

(* the predictor train_medication_model returns for the pipeline's table *)
TrainedPredictor(kind) == TrainedOn(kind, FeatureColumns)

(* MedicationPredictor(): a regressor not fitted, no schema, no metrics *)
NewPredictor == [model |-> Unfitted, feature_names |-> <<>>, metrics |-> <<>>]

-----------------------------------------------------------------------------
(* ConsumptionPredictor *)

(* round(pred_value, 0) of a value that is not negative: to the nearest    *)
(* whole number, a value halfway between two to the even one               *)
RoundHalfEven(r) ==
    LET lo == r.n \div r.d
        rem == r.n % r.d
    IN  IF 2 * rem < r.d THEN Whole(lo)
        ELSE IF 2 * rem > r.d THEN Whole(lo + 1)
        ELSE Whole(IF lo % 2 = 0 THEN lo ELSE lo + 1)

(* a slip: the rolling mean of the cloned row reset *)
_create_future_features_reset(historical_data, future_date) ==
    LET last_row == historical_data[Len(historical_data)]
        month == strftime(future_date).m
    IN  [last_row EXCEPT !.mes = month,
                         !.trimestre = ((month - 1) \div 3) + 1,
                         !.ano = strftime(future_date).Y,
                         !.mes_idx = last_row.mes_idx + 1,
                         !.mes_sin = <<"sin", month>>,
                         !.mes_cos = <<"cos", month>>,
                         !.consumo_media_3m = Zero]

(* ConsumptionPredictor._create_future_features *)
_create_future_features(historical_data, future_date) ==
    LET last_row == historical_data[Len(historical_data)]
        month == strftime(future_date).m
    IN  [last_row EXCEPT !.mes = month,
                         !.trimestre = ((month - 1) \div 3) + 1,
                         !.ano = strftime(future_date).Y,
                         !.mes_idx = last_row.mes_idx + 1,
                         !.mes_sin = <<"sin", month>>,
                         !.mes_cos = <<"cos", month>>]

(* what a call of predict_future did: the forecast table it returned or    *)
(* the exception it raised, and the values model.predict handed it         *)
Forecast(status, rows, returned) ==
    [status |-> status, rows |-> rows, returned |-> returned]

ForecastRow(medicamento, data, consumo_previsto) ==
    [medicamento |-> medicamento,
     data |-> data,
     consumo_previsto |-> consumo_previsto,
     tipo |-> "predicao"]

(* the iterations i..n_months of the loop of predict_future *)
RECURSIVE ForecastLoop(_, _, _, _, _, _)
ForecastLoop(model, med_data, medicamento, last_date, i, n_months) ==
    IF i > n_months THEN Forecast("ok", <<>>, <<>>)
    ELSE LET future_date == last_date + 30 * i
             future_date_str == strftime(future_date)
             future_features == _create_future_features(med_data, future_date)
             pred == predict(model, future_features)
             pred_value == RMax(Zero, pred.value)
             new_row == [future_features EXCEPT !.consumo = pred_value,
                                                !.data = future_date_str,
                                                !.medicamento = medicamento]
             extended == Append(med_data, new_row)
         IN  IF pred.status # "ok" THEN Forecast("error", <<>>, <<>>)
             ELSE IF \E k \in 1..Len(extended) : ~ValidToken(extended[k].data)
             THEN Forecast("error", <<>>, <<pred.value>>)
             ELSE Only({IF rest.status # "ok"
                        THEN Forecast("error", <<>>, <<pred.value>> \o rest.returned)
                        ELSE Forecast("ok",
                                <<ForecastRow(medicamento, future_date_str,
                                              RoundHalfEven(pred_value))>> \o rest.rows,
                                <<pred.value>> \o rest.returned) :
                        rest \in {ForecastLoop(model, recreated, medicamento,
                                               last_date, i + 1, n_months) :
                                  recreated \in {create_features(extended)}}})

(* a slip: the history of every medication taken for the medication's own *)
predict_future_unfiltered(model, df, medicamento, n_months) ==
    IF df = <<>> THEN Forecast("ok", <<>>, <<>>)
    ELSE LET sorted == SortByDate(df)
         IN  IF ~ValidToken(sorted[Len(sorted)].data) THEN Forecast("error", <<>>, <<>>)
             ELSE ForecastLoop(model, sorted, medicamento,
                               to_datetime(sorted[Len(sorted)].data), 1, n_months)

(* a slip: the history taken to have a last row, without a look *)
predict_future_unguarded(model, df, medicamento, n_months) ==
    LET med_data == SelectSeq(df, LAMBDA row : row.medicamento = medicamento)
        sorted == SortByDate(med_data)
    IN  IF med_data = <<>> \/ ~ValidToken(sorted[Len(sorted)].data)
        THEN Forecast("error", <<>>, <<>>)
        ELSE ForecastLoop(model, sorted, medicamento,
                          to_datetime(sorted[Len(sorted)].data), 1, n_months)

(* ConsumptionPredictor.predict_future *)
predict_future(model, df, medicamento, n_months) ==
    LET med_data == SelectSeq(df, LAMBDA row : row.medicamento = medicamento)
        sorted == SortByDate(med_data)
    IN  IF med_data = <<>> THEN Forecast("ok", <<>>, <<>>)
        ELSE IF ~ValidToken(sorted[Len(sorted)].data) THEN Forecast("error", <<>>, <<>>)
        ELSE ForecastLoop(model, sorted, medicamento,
                          to_datetime(sorted[Len(sorted)].data), 1, n_months)

(* df['medicamento'].unique(): the medications in order of first appearance *)
RECURSIVE Unique(_)
Unique(xs) ==
    IF xs = <<>> THEN <<>>
    ELSE LET front == Unique(SubSeq(xs, 1, Len(xs) - 1))
         IN  IF xs[Len(xs)] \in Range(front) THEN front ELSE Append(front, xs[Len(xs)])

(* a slip: the exception of one medication's forecast left to end the batch *)
RECURSIVE CollectPredictionsOrAbort(_, _, _, _)
CollectPredictionsOrAbort(model, df, medicamentos, n_months) ==
    IF medicamentos = <<>> THEN Forecast("ok", <<>>, <<>>)
    ELSE Only({IF pred_df.status # "ok" THEN Forecast("error", <<>>, pred_df.returned)
               ELSE Only({Forecast(rest.status,
                                   IF rest.status = "ok" THEN pred_df.rows \o rest.rows
                                   ELSE <<>>,
                                   pred_df.returned \o rest.returned) :
                            rest \in {CollectPredictionsOrAbort(model, df, Tail(medicamentos),
                                                                n_months)}}) :
               pred_df \in {predict_future(model, df, Head(medicamentos), n_months)}})

(* the loop of predict_all_medications over the medications, and the       *)
(* concatenation of the tables it collected                                *)
RECURSIVE CollectPredictions(_, _, _, _)
CollectPredictions(model, df, medicamentos, n_months) ==
    IF medicamentos = <<>> THEN Forecast("ok", <<>>, <<>>)
    ELSE Only({Forecast("ok",
                        (IF pred_df.status = "ok" THEN pred_df.rows ELSE <<>>) \o rest.rows,
                        pred_df.returned \o rest.returned) :
               pred_df \in {predict_future(model, df, Head(medicamentos), n_months)},
               rest \in {CollectPredictions(model, df, Tail(medicamentos), n_months)}})

(* ConsumptionPredictor.predict_all_medications *)
predict_all_medications(model, df, n_months) ==
    CollectPredictions(model, df, Unique(Column(df, "medicamento")), n_months)

-----------------------------------------------------------------------------
(* Feature tables handed to the forecaster: the concatenation, as the      *)
(* pipeline builds it, of the feature tables of the medications.           *)

MaxLastMonth == 12
MaxHorizon == 2

(* the histories of medication A: one month ending in each of the months   *)
(* from January of BaseYear on, and one of two months                      *)
HistoriesOfA ==
    {<<SeriesRow("A", ConsecutiveMonth(k), Whole(3))>> : k \in 1..MaxLastMonth}
    \cup {<<SeriesRow("A", Token(2023, 1), Whole(1)), SeriesRow("A", Token(2023, 2), Whole(3))>>}

HistoryOfB ==
    <<SeriesRow("B", Token(2023, 6), Whole(1)), SeriesRow("B", Token(2023, 7), Whole(3))>>

(* a row put into the table by hand, whose month token names no month *)
BrokenRow(med, year) ==
    [FeatureRow(<<SeriesRow(med, Token(year, 1), Whole(1))>>, 1) EXCEPT !.data = Token(year, 13)]

(* the rows of the other medications, before and after those of A: none;  *)
(* B; an X whose only row names no month, then B; an X whose earlier row   *)
(* names no month, and B                                                   *)
OtherMedications ==
    {<< <<>>, <<>> >>,
     << <<>>, create_features(HistoryOfB) >>,
     << <<BrokenRow("X", 2024)>> \o create_features(HistoryOfB), <<>> >>,
     << <<BrokenRow("X", 2023)>> \o create_features(<<SeriesRow("X", Token(2024, 1), Whole(1))>>),
        create_features(HistoryOfB) >>}

ForecastTables ==
    {other[1] \o create_features(a) \o other[2] : a \in HistoriesOfA, other \in OtherMedications}

(* the medications predict_future is asked about; none of the tables has C *)
Medications == {"A", "B", "X", "C"}

(* consumption_predictor.predict_future(df, medicamento, n_months) *)
PredictFuture ==
    /\ fcPc = "input"
    /\ \E med \in Medications :
        /\ fcCall' = med
        /\ fcResult' = predict_future(TrainedPredictor(fcRegressor), fcTable, med, fcHorizon)
    /\ fcPc' = "future"
    /\ UNCHANGED <<fcTable, fcRegressor, fcHorizon>>
    /\ UNCHANGED <<riskVars, cleanVars, featVars, trainVars, predictorVars,
                   reportVars, loopVars, mergeVars>>

(* consumption_predictor.predict_all_medications(df_features, n_months) *)
PredictAllMedications ==
    /\ fcPc = "input"
    /\ fcCall' = "all"
    /\ fcResult' = predict_all_medications(TrainedPredictor(fcRegressor), fcTable, fcHorizon)
    /\ fcPc' = "all"
    /\ UNCHANGED <<fcTable, fcRegressor, fcHorizon>>
    /\ UNCHANGED <<riskVars, cleanVars, featVars, trainVars, predictorVars,
                   reportVars, loopVars, mergeVars>>

InitForecast ==
    /\ fcTable \in ForecastTables
    /\ fcRegressor \in Regressors
    /\ fcHorizon \in 1..MaxHorizon
    /\ fcCall = "none"
    /\ fcResult = <<>>
    /\ fcPc = "input"
    /\ RiskIdle
    /\ CleanIdle
    /\ FeaturesIdle
    /\ TrainIdle
    /\ PredictorIdle
    /\ ReportIdle
    /\ LoopIdle
    /\ MergeIdle

NextForecast == PredictFuture \/ PredictAllMedications

SpecForecast == InitForecast /\ [][NextForecast]_vars

-----------------------------------------------------------------------------
(* Claims about the forecaster, checked under SpecForecast *)

HistoryOf(med) == SelectSeq(fcTable, LAMBDA row : row.medicamento = med)

(* the last month of a history whose months are all months *)
LastMonth(history) == SortByDate(history)[Len(history)].data

(* the i-th calendar month after a month *)
MonthAfter(data, i) == ConsecutiveMonth((data.Y - BaseYear) * 12 + data.m + i)

(* C12: for a history that ends in month M and a horizon n, predict_future *)
(* emits exactly n rows, whose months are M+1, ..., M+n in that order.     *)
C12_ConsecutiveForecastMonths ==
    (fcPc = "future" /\ fcResult.status = "ok" /\ HistoryOf(fcCall) # <<>>) =>
        /\ Len(fcResult.rows) = fcHorizon
        /\ \A i \in 1..Len(fcResult.rows) :
                fcResult.rows[i].data = MonthAfter(LastMonth(HistoryOf(fcCall)), i)

(* C13: every predicted_consumption emitted by predict_future and by       *)
(* predict_all_medications is a whole number that is not negative, and     *)
(* every value MedicationPredictor.predict returned is >= 0.               *)
C13_ForecastsNonNegative ==
    fcPc \in {"future", "all"} =>
        /\ \A i \in 1..Len(fcResult.rows) :
                /\ fcResult.rows[i].consumo_previsto.n >= 0
                /\ fcResult.rows[i].consumo_previsto.d = 1
        /\ \A i \in 1..Len(fcResult.returned) : fcResult.returned[i].n >= 0

(* the regressor answered below zero and between two whole numbers, and    *)
(* rows were emitted                                                       *)
C13_Witness ==
    /\ fcPc = "all"
    /\ fcRegressor = "month"
    /\ \E i \in 1..Len(fcResult.rows) :
        /\ fcResult.rows[i].consumo_previsto = Zero
        /\ fcResult.rows[i].data.m = 1
    /\ \E i \in 1..Len(fcResult.rows) : fcResult.rows[i].consumo_previsto.n > 0

(* C14: predict_future for a medication with no row in the table returns   *)
(* an empty table, raises nothing and does not call the model.             *)
C14_NoHistoryNoForecast ==
    (fcPc = "future" /\ HistoryOf(fcCall) = <<>>) =>
        /\ fcResult.status = "ok"
        /\ fcResult.rows = <<>>
        /\ fcResult.returned = <<>>

C14_Witness ==
    /\ fcPc = "future"
    /\ fcCall = "C"
    /\ fcTable # <<>>
    /\ fcResult = Forecast("ok", <<>>, <<>>)

RowsFor(rows, med) == SelectSeq(rows, LAMBDA row : row.medicamento = med)

ForecastAlone(med) ==
    predict_future(TrainedPredictor(fcRegressor), fcTable, med, fcHorizon)

(* C15: predict_all_medications raises nothing; its result holds, for      *)
(* every medication whose predict_future succeeded, the rows of that       *)
(* forecast, and no row of a medication whose forecast failed or of any    *)
(* other.                                                                  *)
C15_FailuresSkipped ==
    fcPc = "all" =>
        /\ fcResult.status = "ok"
        /\ \A med \in Medications :
                RowsFor(fcResult.rows, med)
                    = IF ForecastAlone(med).status = "ok" THEN ForecastAlone(med).rows
                      ELSE <<>>
        /\ \A i \in 1..Len(fcResult.rows) : fcResult.rows[i].medicamento \in Medications

(* the forecast of X failed, before and after the model was called, and    *)
(* the medications after it in the table were still forecast               *)
C15_Witness ==
    /\ fcPc = "all"
    /\ fcTable[1].medicamento = "X"
    /\ ForecastAlone("X").status = "error"
    /\ ForecastAlone("X").returned # <<>>
    /\ RowsFor(fcResult.rows, "A") # <<>>
    /\ RowsFor(fcResult.rows, "B") # <<>>
    /\ RowsFor(fcResult.rows, "X") = <<>>

(* C16: the rows predict_all_medications emits for a medication are those  *)
(* the same model forecasts from the medication's own rows alone, whatever *)
(* other medications the table holds, in whatever order, and whether or    *)
(* not the forecast of another failed.                                     *)
C16_ForecastsIndependent ==
    fcPc = "all" =>
        \A med \in Medications :
            RowsFor(fcResult.rows, med)
                = LET alone == predict_future(TrainedPredictor(fcRegressor),
                                              HistoryOf(med), med, fcHorizon)
                  IN  IF alone.status = "ok" THEN alone.rows ELSE <<>>

C16_Witness ==
    /\ fcPc = "all"
    /\ fcRegressor = "mean"
    /\ fcHorizon > 1
    /\ HistoryOf("B") # <<>>
    /\ HistoryOf("X") # <<>>
    /\ fcTable[1].medicamento = "X"
    /\ Len(RowsFor(fcResult.rows, "A")) = fcHorizon
    /\ RowsFor(fcResult.rows, "A") # RowsFor(fcResult.rows, "B")

-----------------------------------------------------------------------------
(* Training: prepare_data and the split of train *)

(* X holds the feature columns of every row, y the consumption; the    *)
(* columns of a table of the pipeline come in the order of FeatureColumns *)
prepare_data(df) ==
    LET feature_cols == SelectSeq(FeatureColumns, LAMBDA c : c \in DOMAIN df[1])
    IN  [X |-> [i \in 1..Len(df) |-> [c \in Range(feature_cols) |-> df[i][c]]],
         y |-> Column(df, "consumo"),
         feature_names |-> feature_cols]

(* int(len(X) * (1 - test_size)) *)
split_idx(len, test_size) == (len * (test_size.d - test_size.n)) \div test_size.d

TrainRaised == [status |-> "error", X_train |-> <<>>, X_test |-> <<>>,
                y_train |-> <<>>, y_test |-> <<>>]

(* the two parts train fits and evaluates on; the regressor raises on a    *)
(* part without rows                                                       *)
train(X, y, test_size) ==
    LET idx == split_idx(Len(X), test_size)
    IN  IF idx = 0 \/ idx = Len(X) THEN TrainRaised
        ELSE [status |-> "ok",
              X_train |-> SubSeq(X, 1, idx), X_test |-> SubSeq(X, idx + 1, Len(X)),
              y_train |-> SubSeq(y, 1, idx), y_test |-> SubSeq(y, idx + 1, Len(y))]

MaxTrainRows == 3
MaxTrainStart == 2

TrainConsumption == <<Whole(1), Whole(3), Zero, Whole(2)>>

(* the monthly series of one medication: consecutive months *)
TrainSeries(med) ==
    {[k \in 1..len |->
        SeriesRow(med, ConsecutiveMonth(start + k - 1), TrainConsumption[((k - 1) % 4) + 1])] :
     start \in 1..MaxTrainStart, len \in 1..MaxTrainRows}

(* the table load_and_process_data hands to training: the feature tables   *)
(* of the medications one after the other, in the order of the aggregated  *)
(* table, which is sorted by medication                                    *)
TrainTables ==
    {create_features(a) \o b : a \in TrainSeries("A"),
                               b \in {<<>>} \cup {create_features(x) : x \in TrainSeries("B")}}

TestFractions == {Rat(1, 5), Rat(1, 2)}

(* train_medication_model(df_features) *)
TrainMedicationModel ==
    /\ trainPc = "input"
    /\ trainSplit' = train(prepare_data(trainTable).X, prepare_data(trainTable).y, trainFraction)
    /\ trainPc' = "trained"
    /\ UNCHANGED <<trainTable, trainFraction>>
    /\ UNCHANGED <<riskVars, cleanVars, featVars, forecastVars, predictorVars,
                   reportVars, loopVars, mergeVars>>

InitTrain ==
    /\ trainTable \in TrainTables
    /\ trainFraction \in TestFractions
    /\ trainSplit = <<>>
    /\ trainPc = "input"
    /\ RiskIdle
    /\ CleanIdle
    /\ FeaturesIdle
    /\ ForecastIdle
    /\ PredictorIdle
    /\ ReportIdle
    /\ LoopIdle
    /\ MergeIdle

NextTrain == TrainMedicationModel

SpecTrain == InitTrain /\ [][NextTrain]_vars

(* the month of a row of X, counted from January of BaseYear *)
MonthNumber(x) == (x.ano - BaseYear) * 12 + x.mes

(* C17: train splits the rows into the training rows followed by the test  *)
(* rows, the test rows being the last test fraction of the table, and no   *)
(* training row is from a later month than a test row, also for the table  *)
(* the pipeline concatenates from the tables of the medications.           *)
C17_ChronologicalSplit ==
    (trainPc = "trained" /\ trainSplit.status = "ok") =>
        /\ trainSplit.X_train \o trainSplit.X_test = prepare_data(trainTable).X
        /\ trainSplit.y_train \o trainSplit.y_test = prepare_data(trainTable).y
        /\ Len(trainSplit.X_train) = split_idx(Len(trainTable), trainFraction)
        /\ \A i \in 1..Len(trainSplit.X_train), j \in 1..Len(trainSplit.X_test) :
                MonthNumber(trainSplit.X_train[i]) <= MonthNumber(trainSplit.X_test[j])

-----------------------------------------------------------------------------
(* Model persistence: save_model and load_model *)

(* what a path of the file system holds: nothing, bytes that are no        *)
(* pickle, or the pickle of a dictionary, its entries in order             *)
NoFile == [kind |-> "absent", entries |-> <<>>]

Garbage == [kind |-> "garbage", entries |-> <<>>]

Pickled(entries) == [kind |-> "pickle", entries |-> entries]

(* pickle.dump of the dictionary save_model builds *)
dump(self) ==
    Pickled(<< <<"model", self.model>>,
               <<"feature_names", self.feature_names>>,
               <<"metrics", self.metrics>> >>)

(* the keys of the dictionary pickle.load returns, and data[key] *)
Keys(content) == {content.entries[i][1] : i \in 1..Len(content.entries)}

Get(content, key) ==
    content.entries[CHOOSE i \in 1..Len(content.entries) : content.entries[i][1] = key][2]

Paths == {"model.pkl", "missing_dir/model.pkl"}

(* open(filepath, 'wb') succeeds *)
Writable(path) == path = "model.pkl"

(* save_model: the file system afterwards; an exception is printed and     *)
(* the call returns                                                        *)
save_model(self, fs, filepath) ==
    IF Writable(filepath)
    THEN [files |-> [fs EXCEPT ![filepath] = dump(self)], raised |-> FALSE, printed |-> "Modelo salvo"]
    ELSE [files |-> fs, raised |-> FALSE, printed |-> "Erro ao salvar modelo"]

(* a slip: only the regressor is taken from the file *)
load_model_regressor_only(self, fs, filepath) ==
    LET data == fs[filepath]
    IN  IF data.kind # "pickle" \/ "model" \notin Keys(data)
        THEN [self |-> self, raised |-> FALSE, printed |-> "Erro ao carregar modelo"]
        ELSE [self |-> [self EXCEPT !.model = Get(data, "model")],
              raised |-> FALSE, printed |-> "Modelo carregado"]

(* load_model: the predictor afterwards. The three assignments run in      *)
(* order inside the try; the first exception ends them, is printed, and    *)
(* the call returns                                                        *)
load_model(self, fs, filepath) ==
    LET data == fs[filepath]
        failed(reached) == [self |-> reached, raised |-> FALSE,
                            printed |-> "Erro ao carregar modelo"]
    IN  IF data.kind # "pickle" \/ "model" \notin Keys(data) THEN failed(self)
        ELSE LET first == [self EXCEPT !.model = Get(data, "model")]
             IN  IF "feature_names" \notin Keys(data) THEN failed(first)
                 ELSE LET second == [first EXCEPT !.feature_names = Get(data, "feature_names")]
                      IN  IF "metrics" \notin Keys(data) THEN failed(second)
                          ELSE [self |-> [second EXCEPT !.metrics = Get(data, "metrics")],
                                raised |-> FALSE, printed |-> "Modelo carregado"]

MaxCalls == 2

(* the feature columns of a table built without the volatility column *)
ShortColumns == SelectSeq(FeatureColumns, LAMBDA c : c # "volatilidade")

Objects == {"p", "q"}

(* the predictors at the start: p new or trained by the pipeline, q new or *)
(* trained on the shorter table                                            *)
InitialPredictors ==
    {[o \in Objects |-> IF o = "p" THEN a ELSE b] :
        a \in {NewPredictor, TrainedPredictor("mean")},
        b \in {NewPredictor, TrainedOn("half", ShortColumns)}}

(* what model.pkl holds at the start: nothing, no pickle, or a dictionary  *)
(* written elsewhere with some or all of the three keys                    *)
InitialContents ==
    {NoFile, Garbage,
     Pickled(<< <<"model", Fitted("month", Range(ShortColumns))>> >>),
     Pickled(<< <<"model", Fitted("month", Range(FeatureColumns))>> >>),
     Pickled(<< <<"model", Fitted("month", Range(ShortColumns))>>,
                <<"feature_names", ShortColumns>> >>),
     dump(TrainedOn("month", ShortColumns))}

(* the rows handed to predict: a row of the feature table, the row without *)
(* one feature column, and the row with the feature columns only           *)
FeatureTableRow == create_features(<<SeriesRow("A", Token(2023, 4), Whole(3))>>)[1]

PredictInputs ==
    {FeatureTableRow,
     [c \in DOMAIN FeatureTableRow \ {"volatilidade"} |-> FeatureTableRow[c]],
     [c \in Range(FeatureColumns) |-> FeatureTableRow[c]]}

Call(op, obj, path, X, before, after, content, raised, printed, value) ==
    [op |-> op, self |-> obj, path |-> path, X |-> X, before |-> before, after |-> after,
     content |-> content, raised |-> raised, printed |-> printed, value |-> value]

(* predictor.predict(X) *)
Predict ==
    /\ Len(calls) < MaxCalls
    /\ \E obj \in Objects, X \in PredictInputs :
        LET result == predict(predictor[obj], X)
        IN  calls' = Append(calls, Call("predict", obj, "", X, predictor[obj], predictor[obj],
                                        NoFile, result.status = "error", "", result.value))
    /\ UNCHANGED <<predictor, files>>
    /\ UNCHANGED <<riskVars, cleanVars, featVars, forecastVars, trainVars,
                   reportVars, loopVars, mergeVars>>

(* predictor.save_model(filepath) *)
SaveModel ==
    /\ Len(calls) < MaxCalls
    /\ \E obj \in Objects, path \in Paths :
        LET result == save_model(predictor[obj], files, path)
        IN  /\ files' = result.files
            /\ calls' = Append(calls, Call("save", obj, path, <<>>, predictor[obj], predictor[obj],
                                           result.files[path], result.raised, result.printed, Zero))
    /\ UNCHANGED predictor
    /\ UNCHANGED <<riskVars, cleanVars, featVars, forecastVars, trainVars,
                   reportVars, loopVars, mergeVars>>

(* predictor.load_model(filepath) *)
LoadModel ==
    /\ Len(calls) < MaxCalls
    /\ \E obj \in Objects, path \in Paths :
        LET result == load_model(predictor[obj], files, path)
        IN  /\ predictor' = [predictor EXCEPT ![obj] = result.self]
            /\ calls' = Append(calls, Call("load", obj, path, <<>>, predictor[obj], result.self,
                                           files[path], result.raised, result.printed, Zero))
    /\ UNCHANGED files
    /\ UNCHANGED <<riskVars, cleanVars, featVars, forecastVars, trainVars,
                   reportVars, loopVars, mergeVars>>

InitPredictor ==
    /\ predictor \in InitialPredictors
    /\ files \in {[path \in Paths |-> IF Writable(path) THEN c ELSE NoFile] : c \in InitialContents}
    /\ calls = <<>>
    /\ RiskIdle
    /\ CleanIdle
    /\ FeaturesIdle
    /\ ForecastIdle
    /\ TrainIdle
    /\ ReportIdle
    /\ LoopIdle
    /\ MergeIdle

NextPredictor == Predict \/ SaveModel \/ LoadModel

SpecPredictor == InitPredictor /\ [][NextPredictor]_vars

-----------------------------------------------------------------------------
(* MedicationPredictor over its life: prepare_data and train beside        *)
(* predict, save_model and load_model.                                     *)

(* the predictor after prepare_data(df) *)
AfterPrepareData(self, df) == [self EXCEPT !.feature_names = prepare_data(df).feature_names]

default_test_size == Rat(1, 5)

(* the predictor after train(X, y): nothing changes when fit raises *)
AfterTrain(self, X, y, kind) ==
    IF train(X, y, default_test_size).status # "ok" THEN self
    ELSE [self EXCEPT !.model = Fitted(kind, DOMAIN X[1]),
                      !.metrics = Metrics(kind)]

(* the feature table of two months of A, and the one of a single month *)
LifecycleTable ==
    create_features(<<SeriesRow("A", Token(2023, 4), Whole(3)),
                      SeriesRow("A", Token(2023, 5), Whole(1))>>)

(* the tables handed to prepare_data: the table of the pipeline, the table *)
(* without the volatility column, and a table of one row                   *)
LifecycleTables ==
    {LifecycleTable,
     [i \in 1..Len(LifecycleTable) |->
        [c \in DOMAIN LifecycleTable[i] \ {"volatilidade"} |-> LifecycleTable[i][c]]],
     SubSeq(LifecycleTable, 1, 1)}

(* predictor.prepare_data(df) *)
PrepareData ==
    /\ Len(calls) < MaxCalls
    /\ \E obj \in Objects, df \in LifecycleTables :
        LET after == AfterPrepareData(predictor[obj], df)
        IN  /\ predictor' = [predictor EXCEPT ![obj] = after]
            /\ calls' = Append(calls, Call("prepare_data", obj, "", df, predictor[obj], after,
                                           NoFile, FALSE, "", Zero))
    /\ UNCHANGED files
    /\ UNCHANGED <<riskVars, cleanVars, featVars, forecastVars, trainVars,
                   reportVars, loopVars, mergeVars>>

(* predictor.train(X, y), X and y as prepare_data returned them for a table *)
Train ==
    /\ Len(calls) < MaxCalls
    /\ \E obj \in Objects, df \in LifecycleTables :
        LET prepared == prepare_data(df)
            after == AfterTrain(predictor[obj], prepared.X, prepared.y, "mean")
        IN  /\ predictor' = [predictor EXCEPT ![obj] = after]
            /\ calls' = Append(calls, Call("train", obj, "", prepared.X, predictor[obj], after,
                                           NoFile,
                                           train(prepared.X, prepared.y,
                                                 default_test_size).status # "ok",
                                           "", Zero))
    /\ UNCHANGED files
    /\ UNCHANGED <<riskVars, cleanVars, featVars, forecastVars, trainVars,
                   reportVars, loopVars, mergeVars>>

NextLifecycle == PrepareData \/ Train \/ Predict \/ SaveModel \/ LoadModel

SpecLifecycle == InitPredictor /\ [][NextLifecycle]_vars

-----------------------------------------------------------------------------
(* Claims about the predictor, checked under SpecPredictor *)

(* C18: predict raises, and returns no prediction, whenever the input      *)
(* lacks a column of the stored feature schema, and it never returns a     *)
(* prediction for an input that lacks a column the regressor was fitted    *)
(* with.                                                                   *)
C18_SchemaMismatchFails ==
    \A k \in 1..Len(calls) :
        calls[k].op = "predict" =>
            /\ ~(Range(calls[k].before.feature_names) \subseteq DOMAIN calls[k].X)
                    => calls[k].raised
            /\ ~(calls[k].before.model.columns \subseteq DOMAIN calls[k].X)
                    => calls[k].raised

(* the trained predictor was asked about a row without one of its columns, *)
(* which raised, and about the whole row, which it predicted from          *)
C18_Witness ==
    /\ \E k \in 1..Len(calls) :
        /\ calls[k].op = "predict"
        /\ calls[k].before = TrainedPredictor("mean")
        /\ "volatilidade" \notin DOMAIN calls[k].X
        /\ calls[k].raised
    /\ \E k \in 1..Len(calls) :
        /\ calls[k].op = "predict"
        /\ calls[k].before = TrainedPredictor("mean")
        /\ calls[k].X = FeatureTableRow
        /\ ~calls[k].raised

SavedThenLoaded(j, k) ==
    /\ j < k
    /\ calls[j].op = "save"
    /\ calls[j].printed = "Modelo salvo"
    /\ calls[j].before.model.kind # "unfitted"
    /\ calls[k].op = "load"
    /\ calls[k].path = calls[j].path
    /\ \A i \in (j + 1)..(k - 1) : ~(calls[i].op = "save" /\ calls[i].path = calls[j].path)

Complete(content) ==
    content.kind = "pickle" /\ {"model", "feature_names", "metrics"} \subseteq Keys(content)

(* C20: load_model of a file that is missing, is no pickle or lacks the    *)
(* feature schema or the metrics raises to the caller and leaves the       *)
(* predictor as it was; load_model of a complete file leaves the predictor *)
(* with the three parts of that file.                                      *)
C20_LoadAtomic ==
    \A k \in 1..Len(calls) :
        calls[k].op = "load" =>
            IF Complete(calls[k].content)
            THEN calls[k].after = [model |-> Get(calls[k].content, "model"),
                                   feature_names |-> Get(calls[k].content, "feature_names"),
                                   metrics |-> Get(calls[k].content, "metrics")]
            ELSE calls[k].raised /\ calls[k].after = calls[k].before

-----------------------------------------------------------------------------
(* RiskClassifier: statistics, priority list and report *)

Min(a, b) == IF a <= b THEN a ELSE b

HasColumn(df, col) == df # <<>> /\ col \in DOMAIN df[1]

CountLevel(df, level) == Cardinality({i \in 1..Len(df) : df[i].nivel_risco = level})

(* a slip: a level without rows left out of the counts of the others *)
get_risk_statistics_present_only(df) ==
    IF df = <<>> \/ ~HasColumn(df, "nivel_risco")
    THEN [level \in RiskLevels |-> 0]
    ELSE [level \in RiskLevels |-> IF CountLevel(df, "Baixo") = 0 THEN Len(df)
                                   ELSE CountLevel(df, level)]

(* get_risk_statistics: the number of rows of each level *)
get_risk_statistics(df) ==
    IF df = <<>> \/ ~HasColumn(df, "nivel_risco")
    THEN [level \in RiskLevels |-> 0]
    ELSE [level \in RiskLevels |-> CountLevel(df, level)]

risk_order(level) == IF level = "Alto" THEN 1 ELSE IF level = "Medio" THEN 2 ELSE 3

(* a slip: the deficit sorted ascending *)
PriorityBeforeAscending(r1, r2) ==
    \/ risk_order(r1.nivel_risco) < risk_order(r2.nivel_risco)
    \/ /\ risk_order(r1.nivel_risco) = risk_order(r2.nivel_risco)
       /\ r1.deficit < r2.deficit

(* the order of sort_values(['risk_order', 'deficit'], ascending=[True, False]) *)
PriorityBefore(r1, r2) ==
    \/ risk_order(r1.nivel_risco) < risk_order(r2.nivel_risco)
    \/ /\ risk_order(r1.nivel_risco) = risk_order(r2.nivel_risco)
       /\ r1.deficit > r2.deficit

(* the sort of the rows by that order; rows it does not tell apart keep    *)
(* their order                                                             *)
RECURSIVE SortPriority(_)
SortPriority(rows) ==
    IF rows = <<>> THEN <<>>
    ELSE LET sorted == SortPriority(SubSeq(rows, 1, Len(rows) - 1))
             last == rows[Len(rows)]
             before == Cardinality({i \in 1..Len(sorted) : ~PriorityBefore(last, sorted[i])})
         IN  SubSeq(sorted, 1, before) \o <<last>> \o SubSeq(sorted, before + 1, Len(sorted))

(* DataFrame.head(n), n >= 0 *)
head(rows, n) == SubSeq(rows, 1, Min(n, Len(rows)))

(* get_high_risk_medications: the Alto rows by falling deficit *)
get_high_risk_medications(df) ==
    IF df = <<>> \/ ~HasColumn(df, "nivel_risco") THEN <<>>
    ELSE SortPriority(SelectSeq(df, LAMBDA row : row.nivel_risco = "Alto"))

(* get_priority_list *)
get_priority_list(df, top_n) ==
    IF df = <<>> \/ ~HasColumn(df, "nivel_risco") THEN <<>>
    ELSE head(SortPriority(SelectSeq(df, LAMBDA row : row.nivel_risco \in {"Alto", "Medio"})),
              top_n)

(* round(count / total * 100, 1), in tenths of a percent *)
PercentOutcomes(count, total) ==
    IF total > 0
    THEN RoundOutcomes(1000 * count, total, IsPowerOfTwo(total \div GCD(count, total)))
    ELSE {0}

RECURSIVE SumDeficit(_)
SumDeficit(df) ==
    IF df = <<>> THEN 0 ELSE df[Len(df)].deficit + SumDeficit(SubSeq(df, 1, Len(df) - 1))

default_top_n == 10

(* create_risk_report: the reports it can return, one per outcome of the   *)
(* rounding of the percentages                                             *)
create_risk_report(df) ==
    LET stats == get_risk_statistics(df)
        total == Len(df)
    IN  {[total_medicamentos |-> total,
          estatisticas |-> stats,
          percentual_alto |-> pa,
          percentual_medio |-> pm,
          percentual_baixo |-> pb,
          medicamentos_alto_risco |-> get_high_risk_medications(df),
          lista_prioridade |-> get_priority_list(df, default_top_n),
          deficit_total |-> IF HasColumn(df, "deficit") THEN SumDeficit(df) ELSE 0] :
         pa \in PercentOutcomes(stats["Alto"], total),
         pm \in PercentOutcomes(stats["Medio"], total),
         pb \in PercentOutcomes(stats["Baixo"], total)}

MaxReportRows == 3
MaxTopN == 2

(* stock against forecast: nothing forecast, two shortfalls, stock equal   *)
(* to the forecast, a tenth above it, at 1.2 times it, and well above      *)
ReportCases == {<<0, 0>>, <<1, 5>>, <<3, 5>>, <<5, 5>>, <<11, 10>>, <<6, 5>>, <<9, 5>>}

ReportMedications == <<"A", "B", "C", "D", "E">>

(* risk_data: one row per medication *)
ReportTables ==
    UNION {{[i \in 1..n |-> [medicamento |-> ReportMedications[i],
                             estoque_atual |-> cases[i][1],
                             consumo_previsto |-> cases[i][2]]] :
            cases \in [1..n -> ReportCases]} : n \in 0..MaxReportRows}

RiskFilters == {{}, {"Alto"}, {"Alto", "Medio"}}

(* classifier.classify_batch(risk_data) *)
ClassifyForReport ==
    /\ repPc = "input"
    /\ repClassified' \in classify_batch(repData)
    /\ repPc' = "classified"
    /\ UNCHANGED <<repData, repTopN, repResult>>
    /\ UNCHANGED <<riskVars, cleanVars, featVars, forecastVars, trainVars, predictorVars,
                   loopVars, mergeVars>>

(* classifier.get_risk_statistics(risk_df) *)
GetRiskStatistics ==
    /\ repPc = "classified"
    /\ repResult' = get_risk_statistics(repClassified)
    /\ repPc' = "statistics"
    /\ UNCHANGED <<repData, repClassified, repTopN>>
    /\ UNCHANGED <<riskVars, cleanVars, featVars, forecastVars, trainVars, predictorVars,
                   loopVars, mergeVars>>

(* classifier.get_priority_list(risk_df, top_n) *)
GetPriorityList ==
    /\ repPc = "classified"
    /\ \E top_n \in 0..MaxTopN :
        /\ repTopN' = top_n
        /\ repResult' = get_priority_list(repClassified, top_n)
    /\ repPc' = "priority"
    /\ UNCHANGED <<repData, repClassified>>
    /\ UNCHANGED <<riskVars, cleanVars, featVars, forecastVars, trainVars, predictorVars,
                   loopVars, mergeVars>>

(* classifier.create_risk_report(risk_df) *)
CreateRiskReport ==
    /\ repPc = "classified"
    /\ repResult' \in create_risk_report(repClassified)
    /\ repPc' = "report"
    /\ UNCHANGED <<repData, repClassified, repTopN>>
    /\ UNCHANGED <<riskVars, cleanVars, featVars, forecastVars, trainVars, predictorVars,
                   loopVars, mergeVars>>

(* the risk stage of main: the table is classified and filtered, the       *)
(* statistics and the report are asked for, the indicators are put together *)
MainRiskStage ==
    /\ repPc = "input"
    /\ repData # <<>>
    /\ \E risk_df \in classify_batch(repData), risk_filter \in RiskFilters,
          risk_report \in create_risk_report(repData) :
        LET risk_stats == get_risk_statistics(repData)
        IN  /\ repClassified' = risk_df
            /\ repResult' =
                [risk_df |-> IF risk_filter # {}
                             THEN SelectSeq(risk_df, LAMBDA row : row.nivel_risco \in risk_filter)
                             ELSE risk_df,
                 risk_stats |-> risk_stats,
                 risk_report |-> risk_report,
                 kpi_metrics |->
                    [total_medicamentos |-> Len(repData),
                     risco_alto |-> risk_stats["Alto"],
                     risco_medio |-> risk_stats["Medio"],
                     percentual_alto |-> risk_report.percentual_alto,
                     percentual_medio |-> risk_report.percentual_medio,
                     deficit_total |-> risk_report.deficit_total]]
    /\ repPc' = "main"
    /\ UNCHANGED <<repData, repTopN>>
    /\ UNCHANGED <<riskVars, cleanVars, featVars, forecastVars, trainVars, predictorVars,
                   loopVars, mergeVars>>

InitReport ==
    /\ repData \in ReportTables
    /\ repClassified = <<>>
    /\ repTopN = 0
    /\ repResult = <<>>
    /\ repPc = "input"
    /\ RiskIdle
    /\ CleanIdle
    /\ FeaturesIdle
    /\ ForecastIdle
    /\ TrainIdle
    /\ PredictorIdle
    /\ LoopIdle
    /\ MergeIdle

NextReport ==
    ClassifyForReport \/ GetRiskStatistics \/ GetPriorityList \/ CreateRiskReport \/ MainRiskStage

SpecReport == InitReport /\ [][NextReport]_vars

-----------------------------------------------------------------------------
(* Claims about the statistics, the priority list and the report, checked  *)
(* under SpecReport                                                        *)

RowsOfLevel(df, levels) == {i \in 1..Len(df) : df[i].nivel_risco \in levels}

RECURSIVE DeficitOver(_, _)
DeficitOver(df, indices) ==
    IF indices = {} THEN 0
    ELSE LET i == CHOOSE i \in indices : TRUE
         IN  df[i].deficit + DeficitOver(df, indices \ {i})

(* r1 comes before r2 in the priority order: a more severe level, or the   *)
(* same level and a larger deficit                                         *)
Outranks(r1, r2) ==
    \/ Severity(r1.nivel_risco) > Severity(r2.nivel_risco)
    \/ Severity(r1.nivel_risco) = Severity(r2.nivel_risco) /\ r1.deficit > r2.deficit

(* C21: the priority list holds only Alto and Medio rows of the table,     *)
(* each at most once, every Alto row before every Medio row, the deficits  *)
(* not increasing within a level; it has min(top_n, number of Alto and     *)
(* Medio rows) rows and no row left out outranks a row it holds.           *)
C21_PriorityList ==
    repPc = "priority" =>
        LET eligible == RowsOfLevel(repClassified, {"Alto", "Medio"})
            held == {repResult[i].medicamento : i \in 1..Len(repResult)}
        IN  /\ \A i \in 1..Len(repResult) :
                    \E k \in eligible : repResult[i] = repClassified[k]
            /\ Cardinality(held) = Len(repResult)
            /\ \A i \in 1..Len(repResult), j \in 1..Len(repResult) :
                    i < j => ~Outranks(repResult[j], repResult[i])
            /\ Len(repResult) = Min(repTopN, Cardinality(eligible))
            /\ \A k \in eligible :
                    repClassified[k].medicamento \notin held =>
                        \A i \in 1..Len(repResult) : ~Outranks(repClassified[k], repResult[i])

(* three rows qualify, in the table with the smaller deficit first and the *)
(* Medio row before both; two are asked for                                *)
C21_Witness ==
    /\ repPc = "priority"
    /\ repTopN = 2
    /\ Len(repClassified) = 3
    /\ repClassified[1].nivel_risco = "Medio"
    /\ repClassified[2].nivel_risco = "Alto"
    /\ repClassified[3].nivel_risco = "Alto"
    /\ repClassified[2].deficit < repClassified[3].deficit
    /\ repResult = <<repClassified[3], repClassified[2]>>

(* C22: get_risk_statistics returns for Alto, Medio and Baixo the number   *)
(* of rows of that level, 0 for a level without rows; the report over a    *)
(* classified table holds those counts, total_medicamentos equal to their  *)
(* sum, deficit_total equal to the sum of the deficits of the rows, and    *)
(* three percentages of 0 when the table is empty.                         *)
C22_StatisticsAndReport ==
    /\ repPc = "statistics" =>
        /\ DOMAIN repResult = RiskLevels
        /\ \A level \in RiskLevels :
                repResult[level] = Cardinality(RowsOfLevel(repClassified, {level}))
    /\ repPc = "report" =>
        /\ \A level \in RiskLevels :
                repResult.estatisticas[level] = Cardinality(RowsOfLevel(repClassified, {level}))
        /\ repResult.total_medicamentos
                = repResult.estatisticas["Alto"] + repResult.estatisticas["Medio"]
                    + repResult.estatisticas["Baixo"]
        /\ repResult.deficit_total = DeficitOver(repClassified, 1..Len(repClassified))
        /\ repClassified = <<>> =>
                /\ repResult.percentual_alto = 0
                /\ repResult.percentual_medio = 0
                /\ repResult.percentual_baixo = 0

(* a report over two Alto rows and a Medio row, no Baixo row *)
C22_Witness ==
    /\ repPc = "report"
    /\ repResult.estatisticas = [level \in RiskLevels |->
                                    IF level = "Alto" THEN 2 ELSE IF level = "Medio" THEN 1 ELSE 0]
    /\ repResult.total_medicamentos = 3
    /\ repResult.deficit_total = 6
    /\ repResult.percentual_baixo = 0

(* C28: a row classify_batch produced from a stock and a forecast that are *)
(* not negative has a deficit above 0 exactly when its level is Alto, so   *)
(* Medio and Baixo rows have deficit 0, and the total deficit of the       *)
(* report is the sum of the deficits of the Alto rows.                     *)
C28_DeficitIffHigh ==
    /\ repPc \in {"classified", "statistics", "priority", "report"} =>
        \A i \in 1..Len(repClassified) :
            /\ (repClassified[i].deficit > 0) <=> (repClassified[i].nivel_risco = "Alto")
            /\ repClassified[i].nivel_risco \in {"Medio", "Baixo"} => repClassified[i].deficit = 0
    /\ repPc = "report" =>
        repResult.deficit_total = DeficitOver(repClassified, RowsOfLevel(repClassified, {"Alto"}))

(* a report over an Alto row, a Medio row whose stock equals the forecast  *)
(* and a Baixo row without forecast                                        *)
C28_Witness ==
    /\ repPc = "report"
    /\ \E i, j, k \in 1..Len(repClassified) :
        /\ repClassified[i].nivel_risco = "Alto" /\ repClassified[i].deficit = 4
        /\ repClassified[j].nivel_risco = "Medio"
        /\ repClassified[j].estoque_atual = repClassified[j].consumo_previsto
        /\ repClassified[k].nivel_risco = "Baixo" /\ repClassified[k].consumo_previsto = 0
    /\ repResult.deficit_total = 4

(* C30: in main, the statistics and the report are those of the classified *)
(* risk table: the counts of Alto, Medio and Baixo are the numbers of its  *)
(* rows of each level and sum to the number of medications, the            *)
(* percentages are those of the counts, and the total deficit is the sum   *)
(* of the deficits of the classified rows.                                 *)
C30_ReportOverClassifiedTable ==
    repPc = "main" =>
        /\ \A level \in RiskLevels :
            /\ repResult.risk_stats[level] = Cardinality(RowsOfLevel(repClassified, {level}))
            /\ repResult.risk_report.estatisticas[level] = repResult.risk_stats[level]
        /\ repResult.risk_stats["Alto"] + repResult.risk_stats["Medio"]
                + repResult.risk_stats["Baixo"] = Len(repClassified)
        /\ repResult.risk_report.percentual_alto
                \in PercentOutcomes(repResult.risk_stats["Alto"], Len(repClassified))
        /\ repResult.risk_report.percentual_medio
                \in PercentOutcomes(repResult.risk_stats["Medio"], Len(repClassified))
        /\ repResult.risk_report.percentual_baixo
                \in PercentOutcomes(repResult.risk_stats["Baixo"], Len(repClassified))
        /\ repResult.risk_report.deficit_total
                = DeficitOver(repClassified, 1..Len(repClassified))

-----------------------------------------------------------------------------
(* The removal of outliers, checked under SpecClean *)

(* the positions of the rows whose value in the column lies more than      *)
(* three standard deviations above the mean of the column, both taken      *)
(* over all the rows given; none when the deviation is 0 or undefined.     *)
(* With n rows of sum S and sum of squares Q, x > S/n + 3 * std says       *)
(* n*x > S and (n*x - S)^2 * (n - 1) > 9 * n * (n*Q - S^2).                *)
FarAbove(rows, col) ==
    LET n == Len(rows)
        S == Sum([i \in 1..n |-> rows[i][col].v])
        Q == Sum([i \in 1..n |-> rows[i][col].v * rows[i][col].v])
    IN  {i \in 1..n :
            /\ n >= 2
            /\ n * Q > S * S
            /\ n * rows[i][col].v > S
            /\ (n * rows[i][col].v - S) * (n * rows[i][col].v - S) * (n - 1)
                    > 9 * n * (n * Q - S * S)}

WithoutRows(rows, positions) == RowsAt(rows, (1..Len(rows)) \ positions, 1)

OutlierInput == BeforeOutliers(cleanInput).rows

AfterConsumo == WithoutRows(OutlierInput, FarAbove(OutlierInput, "consumo"))

AfterEstoque == WithoutRows(AfterConsumo, FarAbove(AfterConsumo, "estoque_atual"))

CleanedValidInput == cleanPc = "cleaned" /\ ~Empty(cleanInput)

(* C26: the rows clean returns are those left by one pass over the         *)
(* consumption, which removes exactly the rows above mean + 3 * std of the *)
(* rows then present, followed by one pass over the stock of the rows left *)
(* by the first; neither pass is repeated, and neither removes a row for   *)
(* a low value or from a column whose deviation is 0.                      *)
C26_OutliersOnePassUpperBound ==
    CleanedValidInput =>
        /\ Len(OutRows) = Len(AfterEstoque)
        /\ Range(OutRows) = Range(AfterEstoque)

(* the largest consumption was removed and the next largest, which lies    *)
(* above the bound of the rows that are left, was kept                     *)
C26_Witness ==
    /\ CleanedValidInput
    /\ Len(OutlierInput) = BlockLen + 2
    /\ Len(OutRows) = BlockLen + 1
    /\ \E i \in 1..Len(OutRows) : OutRows[i].consumo.v = 10
    /\ FarAbove(OutRows, "consumo") # {}

-----------------------------------------------------------------------------
(* ConsumptionPredictor, step by step: the calls of predict_future and of  *)
(* predict_all_medications, with the local variables of predict_future     *)
(* and the objects the caller shares with it.                              *)

(* a slip: the metrics dropped by a prediction *)
AfterPredictClearingMetrics(self, X) == [self EXCEPT !.metrics = <<>>]

(* the predictor after MedicationPredictor.predict: X is rebound to the    *)
(* selection and to the copies replace and fillna return, and no attribute *)
(* of self is assigned                                                     *)
AfterPredict(self, X) == self

LoopHistoriesOfA ==
    {<<SeriesRow("A", Token(2023, 1), Whole(3))>>,
     <<SeriesRow("A", Token(2023, 12), Whole(3))>>,
     <<SeriesRow("A", Token(2023, 1), Whole(1)), SeriesRow("A", Token(2023, 2), Whole(3))>>}

LoopTables ==
    {other[1] \o create_features(a) \o other[2] :
        a \in LoopHistoriesOfA, other \in OtherMedications}

(* the other variables of the forecaster's frame *)
LoopLocals == <<lpMedData, lpLastDate, lpFeatures, lpPredValue, lpPredictions, lpStep>>

LoopOthers ==
    <<riskVars, cleanVars, featVars, forecastVars, trainVars, predictorVars,
      reportVars, mergeVars>>

(* predict_future returns the rows to its caller: to predict_all_medications, *)
(* which keeps a table that is not empty and goes on, or to the caller     *)
ReturnRows(rows) ==
    /\ lpAll' = lpAll \o rows
    /\ lpQueue' = IF lpMode = "all" THEN Tail(lpQueue) ELSE lpQueue
    /\ lpPc' = IF lpMode = "all" /\ Tail(lpQueue) # <<>> THEN "select" ELSE "done"

(* predict_future raises: predict_all_medications prints the error and     *)
(* goes on, a direct caller sees the exception                             *)
RaiseError ==
    IF lpMode = "all" THEN ReturnRows(<<>>)
    ELSE lpPc' = "raised" /\ UNCHANGED <<lpAll, lpQueue>>

(* consumption_predictor.predict_future(df, medicamento, n_months) is called *)
CallPredictFuture ==
    /\ lpPc = "input"
    /\ \E med \in Medications : lpQueue' = <<med>>
    /\ lpMode' = "future"
    /\ lpPc' = "select"
    /\ UNCHANGED <<lpDf, lpModel, lpHorizon, lpAll, LoopLocals>>
    /\ UNCHANGED LoopOthers

(* consumption_predictor.predict_all_medications(df, n_months) is called *)
CallPredictAllMedications ==
    /\ lpPc = "input"
    /\ lpQueue' = Unique(Column(lpDf, "medicamento"))
    /\ lpMode' = "all"
    /\ lpPc' = IF lpDf = <<>> THEN "done" ELSE "select"
    /\ UNCHANGED <<lpDf, lpModel, lpHorizon, lpAll, LoopLocals>>
    /\ UNCHANGED LoopOthers

(* predict_future up to its loop: the copy of the medication's rows, the   *)
(* sort and last_date                                                      *)
SelectHistory ==
    /\ lpPc = "select"
    /\ LET med_data == SelectSeq(lpDf, LAMBDA row : row.medicamento = Head(lpQueue))
           sorted == SortByDate(med_data)
       IN  IF med_data = <<>>
           THEN ReturnRows(<<>>) /\ UNCHANGED LoopLocals
           ELSE IF ~ValidToken(sorted[Len(sorted)].data)
           THEN RaiseError /\ UNCHANGED LoopLocals
           ELSE /\ lpMedData' = sorted
                /\ lpLastDate' = to_datetime(sorted[Len(sorted)].data)
                /\ lpPredictions' = <<>>
                /\ lpStep' = 1
                /\ lpPc' = "loop"
                /\ UNCHANGED <<lpAll, lpQueue, lpFeatures, lpPredValue>>
    /\ UNCHANGED <<lpDf, lpModel, lpHorizon, lpMode>>
    /\ UNCHANGED LoopOthers

(* the loop is over: return pd.DataFrame(predictions) *)
ReturnPredictions ==
    /\ lpPc = "loop"
    /\ lpStep > lpHorizon
    /\ ReturnRows(lpPredictions)
    /\ UNCHANGED <<lpDf, lpModel, lpHorizon, lpMode, LoopLocals>>
    /\ UNCHANGED LoopOthers

(* future_features = self._create_future_features(med_data, future_date);  *)
(* the row is a copy of the last row of med_data, which is not written     *)
CreateFutureFeatures ==
    /\ lpPc = "loop"
    /\ lpStep <= lpHorizon
    /\ lpFeatures' = _create_future_features(lpMedData, lpLastDate + 30 * lpStep)
    /\ lpPc' = "features"
    /\ UNCHANGED <<lpDf, lpModel, lpHorizon, lpMode, lpQueue, lpAll,
                   lpMedData, lpLastDate, lpPredValue, lpPredictions, lpStep>>
    /\ UNCHANGED LoopOthers

(* pred = self.model.predict(future_features), pred_value and the forecast *)
(* row appended to predictions                                             *)
ModelPredict ==
    /\ lpPc = "features"
    /\ lpModel' = AfterPredict(lpModel, lpFeatures)
    /\ LET pred == predict(lpModel, lpFeatures)
           pred_value == RMax(Zero, pred.value)
       IN  IF pred.status # "ok"
           THEN RaiseError /\ UNCHANGED <<lpPredValue, lpPredictions>>
           ELSE /\ lpPredValue' = pred_value
                /\ lpPredictions' =
                        Append(lpPredictions,
                               ForecastRow(Head(lpQueue),
                                           strftime(lpLastDate + 30 * lpStep),
                                           RoundHalfEven(pred_value)))
                /\ lpPc' = "predicted"
                /\ UNCHANGED <<lpAll, lpQueue>>
    /\ UNCHANGED <<lpDf, lpHorizon, lpMode, lpMedData, lpLastDate, lpFeatures, lpStep>>
    /\ UNCHANGED LoopOthers

(* a slip: the consumption of the cloned row left in the row appended *)
AppendAndRecreateKeepingConsumo ==
    /\ lpPc = "predicted"
    /\ LET new_row == [lpFeatures EXCEPT !.data = strftime(lpLastDate + 30 * lpStep),
                                         !.medicamento = Head(lpQueue)]
           extended == Append(lpMedData, new_row)
       IN  IF \E k \in 1..Len(extended) : ~ValidToken(extended[k].data)
           THEN RaiseError /\ UNCHANGED <<lpMedData, lpStep>>
           ELSE /\ lpMedData' = create_features(extended)
                /\ lpStep' = lpStep + 1
                /\ lpPc' = "loop"
                /\ UNCHANGED <<lpAll, lpQueue>>
    /\ UNCHANGED <<lpDf, lpModel, lpHorizon, lpMode, lpLastDate, lpFeatures,
                   lpPredValue, lpPredictions>>
    /\ UNCHANGED LoopOthers

(* new_row, the concatenation and create_features over the longer series *)
AppendAndRecreate ==
    /\ lpPc = "predicted"
    /\ LET new_row == [lpFeatures EXCEPT !.consumo = lpPredValue,
                                         !.data = strftime(lpLastDate + 30 * lpStep),
                                         !.medicamento = Head(lpQueue)]
           extended == Append(lpMedData, new_row)
       IN  IF \E k \in 1..Len(extended) : ~ValidToken(extended[k].data)
           THEN RaiseError /\ UNCHANGED <<lpMedData, lpStep>>
           ELSE /\ lpMedData' = create_features(extended)
                /\ lpStep' = lpStep + 1
                /\ lpPc' = "loop"
                /\ UNCHANGED <<lpAll, lpQueue>>
    /\ UNCHANGED <<lpDf, lpModel, lpHorizon, lpMode, lpLastDate, lpFeatures,
                   lpPredValue, lpPredictions>>
    /\ UNCHANGED LoopOthers

InitLoop ==
    /\ lpDf \in LoopTables
    /\ lpModel \in {TrainedPredictor(kind) : kind \in Regressors}
    /\ lpHorizon \in 1..MaxHorizon
    /\ lpMode = "none"
    /\ lpQueue = <<>>
    /\ lpAll = <<>>
    /\ lpMedData = <<>>
    /\ lpLastDate = 0
    /\ lpFeatures = <<>>
    /\ lpPredValue = <<>>
    /\ lpPredictions = <<>>
    /\ lpStep = 0
    /\ lpPc = "input"
    /\ RiskIdle
    /\ CleanIdle
    /\ FeaturesIdle
    /\ ForecastIdle
    /\ TrainIdle
    /\ PredictorIdle
    /\ ReportIdle
    /\ MergeIdle

NextLoop ==
    \/ CallPredictFuture
    \/ CallPredictAllMedications
    \/ SelectHistory
    \/ ReturnPredictions
    \/ CreateFutureFeatures
    \/ ModelPredict
    \/ AppendAndRecreate

SpecLoop == InitLoop /\ [][NextLoop]_vars

(* the steps taken one by one give what predict_future gives as a whole *)
LoopAgreesWithForecast ==
    /\ lpPc = "done" /\ lpMode = "future" =>
            LET whole == predict_future(lpModel, lpDf, lpQueue[1], lpHorizon)
            IN  whole.status = "ok" /\ whole.rows = lpAll
    /\ lpPc = "raised" =>
            predict_future(lpModel, lpDf, lpQueue[1], lpHorizon).status = "error"
    /\ lpPc = "done" /\ lpMode = "all" =>
            predict_all_medications(lpModel, lpDf, lpHorizon).rows = lpAll

-----------------------------------------------------------------------------
(* Claims about the loop of predict_future, checked under SpecLoop *)

CalendarFields == {"mes", "trimestre", "ano", "mes_idx", "mes_sin", "mes_cos"}

(* the month the current step forecasts *)
TargetMonth == strftime(lpLastDate + 30 * lpStep)

(* the rows the medication has in the caller's table *)
InitialLength == Len(SelectSeq(lpDf, LAMBDA row : row.medicamento = Head(lpQueue)))

(* the steps of the loop that are complete *)
StepsDone == lpStep - 1

InLoop == lpPc \in {"loop", "features", "predicted"}

(* C23: the synthesis of the future feature row leaves the history as it   *)
(* is, and the row it returns has the calendar fields of the target month, *)
(* the month index of the last row of the history plus 1, and in every     *)
(* other column the value of the last row of the history.                  *)
C23_SynthesisChangesCalendarOnly ==
    [][lpPc = "loop" /\ lpPc' = "features" =>
        LET last == lpMedData[Len(lpMedData)]
        IN  /\ lpMedData' = lpMedData
            /\ DOMAIN lpFeatures' = DOMAIN last
            /\ \A c \in DOMAIN last \ CalendarFields : lpFeatures'[c] = last[c]
            /\ lpFeatures'.mes = TargetMonth.m
            /\ lpFeatures'.trimestre = ((TargetMonth.m + 2) \div 3)
            /\ lpFeatures'.ano = TargetMonth.Y
            /\ lpFeatures'.mes_idx = last.mes_idx + 1
            /\ lpFeatures'.mes_sin = <<"sin", TargetMonth.m>>
            /\ lpFeatures'.mes_cos = <<"cos", TargetMonth.m>>]_vars

(* the row of the second step: cloned from the synthetic row of the first, *)
(* for a month in another quarter of another year                          *)
C23_Witness ==
    /\ lpPc = "features"
    /\ lpStep = 2
    /\ LET last == lpMedData[Len(lpMedData)]
       IN  /\ lpFeatures.trimestre # last.trimestre
           /\ lpFeatures.ano # last.ano
           /\ lpFeatures.consumo_media_3m = last.consumo_media_3m
           /\ lpFeatures.consumo_media_3m # Zero

(* C24: after k steps of the loop the history has its initial length plus  *)
(* k, the consumption of the row step j appended is the consumption the    *)
(* forecast row of step j carries, and the features of the next step are   *)
(* cloned from the row appended last.                                      *)
C24_RecursiveFeedback ==
    InLoop =>
        /\ Len(lpMedData) = InitialLength + StepsDone
        /\ \A j \in 1..StepsDone :
                /\ lpMedData[InitialLength + j].data = lpPredictions[j].data
                /\ lpMedData[InitialLength + j].consumo = lpPredictions[j].consumo_previsto
        /\ lpPc = "features" /\ StepsDone >= 1 =>
                /\ lpFeatures.data = lpPredictions[StepsDone].data
                /\ lpFeatures.consumo = lpMedData[Len(lpMedData)].consumo

(* C24, amended: after k steps of the loop the history has its initial     *)
(* length plus k; the row step j appended carries the month of the         *)
(* forecast row of step j and, as consumption, the prediction raised to 0  *)
(* when negative, of which the forecast row carries the rounding to a      *)
(* whole number; and the features of the next step are cloned from the row *)
(* appended last.                                                          *)
C24_RecursiveFeedbackAmended ==
    InLoop =>
        /\ Len(lpMedData) = InitialLength + StepsDone
        /\ \A j \in 1..StepsDone :
                /\ lpMedData[InitialLength + j].data = lpPredictions[j].data
                /\ RoundHalfEven(lpMedData[InitialLength + j].consumo)
                        = lpPredictions[j].consumo_previsto
        /\ lpPc = "loop" /\ StepsDone >= 1 =>
                lpMedData[Len(lpMedData)].consumo = lpPredValue
        /\ lpPc = "features" /\ StepsDone >= 1 =>
                /\ lpFeatures.data = lpPredictions[StepsDone].data
                /\ lpFeatures.consumo = lpMedData[Len(lpMedData)].consumo

(* two steps done, the second of which appended a consumption that is no   *)
(* whole number beside a forecast row that carries its rounding            *)
C24_Witness ==
    /\ lpPc = "loop"
    /\ StepsDone = 2
    /\ lpMedData[Len(lpMedData)].consumo.d = 2
    /\ lpPredictions[2].consumo_previsto # lpMedData[Len(lpMedData)].consumo
    /\ lpMedData[Len(lpMedData)].consumo # lpMedData[InitialLength].consumo

(* C25: no step of predict_future or predict_all_medications, the calls of *)
(* MedicationPredictor.predict among them, changes the predictor's model,  *)
(* feature names or metrics, or the table the caller handed in.            *)
C25_ModelAndTableReadOnly ==
    [][lpModel' = lpModel /\ lpDf' = lpDf]_vars

(* predict_all_medications returned the forecasts of two medications *)
C25_Witness ==
    /\ lpPc = "done"
    /\ lpMode = "all"
    /\ \E i, j \in 1..Len(lpAll) : lpAll[i].medicamento # lpAll[j].medicamento
    /\ lpModel.model.kind \in Regressors

-----------------------------------------------------------------------------
(* The risk table: built by main from the forecasts and the monthly table, *)
(* and built by classify_medication_risk.                                  *)

MaxMergeHorizon == 2

(* the medications in the order groupby sorts them *)
MergeMedications == <<"A", "B", "C">>

(* the stock of a merged row: one value, or none where the merge found no row *)
NoStock == <<>>

Built(rows) == [status |-> "ok", rows |-> rows]

MergeRaised == [status |-> "error", rows |-> <<>>]

RowsOf(df, med) == SelectSeq(df, LAMBDA row : row.medicamento = med)

(* the keys of the groups of df.groupby('medicamento'), sorted *)
MedicationKeys(df) ==
    SelectSeq(MergeMedications, LAMBDA med : \E i \in 1..Len(df) : df[i].medicamento = med)

(* df_clean.sort_values('data').groupby('medicamento').last().reset_index() *)
(* and the selection of the two columns                                    *)
last_stock(df_clean) ==
    LET sorted == SortByDate(df_clean)
        keys == MedicationKeys(sorted)
    IN  [k \in 1..Len(keys) |->
            LET group == RowsOf(sorted, keys[k])
            IN  [medicamento |-> keys[k],
                 estoque_atual |-> group[Len(group)].estoque_atual]]

(* predictions.groupby('medicamento')['consumo_previsto'].sum().reset_index() *)
pred_summary(predictions) ==
    LET keys == MedicationKeys(predictions)
    IN  [k \in 1..Len(keys) |->
            [medicamento |-> keys[k],
             consumo_previsto |-> Sum(Column(RowsOf(predictions, keys[k]),
                                             "consumo_previsto"))]]

(* left.merge(right, on='medicamento', how='left'): for each row of left,  *)
(* in order, one row for each row of right of that medication, or one row  *)
(* without a stock when right has none                                     *)
RECURSIVE merge_left(_, _)
merge_left(left, right) ==
    IF left = <<>> THEN <<>>
    ELSE LET row == Head(left)
             matches == RowsOf(right, row.medicamento)
             joined(estoque) == [medicamento |-> row.medicamento,
                                 consumo_previsto |-> row.consumo_previsto,
                                 estoque_atual |-> estoque]
         IN  (IF matches = <<>> THEN <<joined(NoStock)>>
              ELSE [j \in 1..Len(matches) |-> joined(<<matches[j].estoque_atual>>)])
             \o merge_left(Tail(left), right)

(* df['estoque_atual'].fillna(0) *)
fillna_stock(df) ==
    [i \in 1..Len(df) |->
        [df[i] EXCEPT !.estoque_atual = IF @ = NoStock THEN 0 ELSE @[1]]]

(* risk_data of main; an empty forecast table has no column to group by *)
risk_data_of_main(predictions, df_clean) ==
    IF predictions = <<>> THEN MergeRaised
    ELSE Built(fillna_stock(merge_left(pred_summary(predictions), last_stock(df_clean))))

(* the table classify_medication_risk hands to classify_batch *)
risk_data_of_function(predictions, current_stock) ==
    IF predictions = <<>> THEN MergeRaised
    ELSE Built(fillna_stock(merge_left(predictions, current_stock)))

ForecastMonths == <<Token(2024, 1), Token(2024, 3), Token(2024, 4), Token(2024, 5)>>

(* the forecast rows of one medication: none, or one for each month of a   *)
(* horizon                                                                 *)
ForecastsOf(med) ==
    {<<>>} \cup
    UNION {{[i \in 1..n |-> [medicamento |-> med,
                             data |-> ForecastMonths[i],
                             consumo_previsto |-> values[i]]] :
            values \in [1..n -> {1, 3}]} : n \in 1..MaxMergeHorizon}

(* predictions: the forecasts of A, then those of B; C has none *)
MergePredictions == {a \o b : a \in ForecastsOf("A"), b \in ForecastsOf("B")}

StockRow(med, data, estoque) ==
    [medicamento |-> med, data |-> data, estoque_atual |-> estoque]

(* the monthly table: rows sorted by medication and month *)
MergeStocks ==
    {a \o b \o c :
        a \in {<<>>,
               <<StockRow("A", Token(2023, 11), 4)>>,
               <<StockRow("A", Token(2023, 11), 4), StockRow("A", Token(2023, 12), 0)>>,
               <<StockRow("A", Token(2023, 11), 0), StockRow("A", Token(2023, 12), 4)>>},
        b \in {<<>>, <<StockRow("B", Token(2023, 10), 2)>>},
        c \in {<<>>, <<StockRow("C", Token(2023, 12), 7)>>}}

MergeOthers ==
    <<riskVars, cleanVars, featVars, forecastVars, trainVars, predictorVars,
      reportVars, loopVars>>

(* main, from last_stock to classify_batch *)
BuildRiskTable ==
    /\ mgPc = "input"
    /\ LET risk_data == risk_data_of_main(mgPredictions, mgStock)
       IN  IF risk_data.status # "ok" THEN mgRisk' = MergeRaised
           ELSE \E risk_df \in classify_batch(risk_data.rows) : mgRisk' = Built(risk_df)
    /\ mgPc' = "pipeline"
    /\ UNCHANGED <<mgPredictions, mgStock>>
    /\ UNCHANGED MergeOthers

(* classify_medication_risk(predictions, current_stock) *)
ClassifyMedicationRisk ==
    /\ mgPc = "input"
    /\ LET risk_data == risk_data_of_function(mgPredictions, mgStock)
       IN  IF risk_data.status # "ok" THEN mgRisk' = MergeRaised
           ELSE \E risk_df \in classify_batch(risk_data.rows) : mgRisk' = Built(risk_df)
    /\ mgPc' = "function"
    /\ UNCHANGED <<mgPredictions, mgStock>>
    /\ UNCHANGED MergeOthers

InitMerge ==
    /\ mgPredictions \in MergePredictions
    /\ mgStock \in MergeStocks
    /\ mgRisk = <<>>
    /\ mgPc = "input"
    /\ RiskIdle
    /\ CleanIdle
    /\ FeaturesIdle
    /\ ForecastIdle
    /\ TrainIdle
    /\ PredictorIdle
    /\ ReportIdle
    /\ LoopIdle

NextMerge == BuildRiskTable \/ ClassifyMedicationRisk

SpecMerge == InitMerge /\ [][NextMerge]_vars

-----------------------------------------------------------------------------
(* Claims about the risk table, checked under SpecMerge *)

(* the stock of the latest month the medication has in the monthly table, *)
(* 0 when it has none                                                      *)
LatestStock(med) ==
    IF \A i \in 1..Len(mgStock) : mgStock[i].medicamento # med THEN 0
    ELSE LET i == CHOOSE i \in 1..Len(mgStock) :
                    /\ mgStock[i].medicamento = med
                    /\ \A j \in 1..Len(mgStock) :
                            mgStock[j].medicamento = med =>
                                ~TokenLess(mgStock[i].data, mgStock[j].data)
         IN  mgStock[i].estoque_atual

RECURSIVE ForecastOver(_, _)
ForecastOver(med, n) ==
    IF n = 0 THEN 0
    ELSE (IF mgPredictions[n].medicamento = med THEN mgPredictions[n].consumo_previsto ELSE 0)
         + ForecastOver(med, n - 1)

Forecasted == {mgPredictions[i].medicamento : i \in 1..Len(mgPredictions)}

OneRowForEachForecasted ==
    /\ \A med \in Forecasted :
            \E i \in 1..Len(mgRisk.rows) :
                /\ mgRisk.rows[i].medicamento = med
                /\ mgRisk.rows[i].consumo_previsto = ForecastOver(med, Len(mgPredictions))
                /\ mgRisk.rows[i].estoque_atual = LatestStock(med)
                /\ \A j \in 1..Len(mgRisk.rows) : mgRisk.rows[j].medicamento = med => j = i
    /\ \A i \in 1..Len(mgRisk.rows) : mgRisk.rows[i].medicamento \in Forecasted

(* the risk table main builds: this one has the rows the claim describes *)
PipelineRiskTable ==
    mgPc = "pipeline" /\ mgRisk.status = "ok" => OneRowForEachForecasted

(* C27: the risk table, built by main or by classify_medication_risk, has  *)
(* one row for each medication with a forecast row and no other; the row   *)
(* carries the sum of the medication's forecasts and the stock of its      *)
(* latest month in the monthly table, 0 when it has none.                  *)
C27_OneRowPerMedication ==
    mgPc \in {"pipeline", "function"} /\ mgRisk.status = "ok" => OneRowForEachForecasted

-----------------------------------------------------------------------------
(* Claims about the predictor over its life, checked under SpecLifecycle *)

SchemaOfModel(self) ==
    /\ Range(self.feature_names) = self.model.columns
    /\ Len(self.feature_names) = Cardinality(self.model.columns)

(* a predictor that was trained had its schema replaced by prepare_data *)
SchemaReplacedByPrepareData ==
    \E i \in 1..Len(calls) :
        /\ calls[i].op = "prepare_data"
        /\ calls[i].before.model.kind # "unfitted"
        /\ SchemaOfModel(calls[i].before)
        /\ calls[i].after.model = calls[i].before.model
        /\ ~SchemaOfModel(calls[i].after)

(* C29: after any calls of prepare_data, train, predict, save_model and    *)
(* load_model, the feature names of a predictor whose model is fitted are  *)
(* the columns the model was fitted on.                                    *)
C29_SchemaIsFittedColumns ==
    \A obj \in Objects :
        predictor[obj].model.kind # "unfitted" => SchemaOfModel(predictor[obj])

=============================================================================
